---- MODULE Spec2Model ----
(***************************************************************************)
(* Model of the vproj daemon subsystem: the line-oriented TCP exchange of  *)
(* daemon.py (_send_tcl_to_port), discovery (find_server), the launcher    *)
(* (start_daemon), the shutdown (stop_daemon) and the mode dispatcher of   *)
(* vivado.py (run_vivado_tcl_auto).                                        *)
(*                                                                         *)
(* Text is modelled as a sequence of one-character strings; LF and CR are  *)
(* the two control characters the code looks at.                           *)
(***************************************************************************)
EXTENDS Integers, Sequences, FiniteSets, TLC

VARIABLES
  \* ---- one _send_tcl_to_port call, byte by byte (SpecSend) ----
  tcl,             \* the payload text handed to the send
  worker,          \* what the peer writes: [kind, script]
  s_pc,            \* position in _send_tcl_to_port
  request,         \* bytes the client has written to the socket
  wire,            \* bytes the worker writes in reply, in total
  nrecv,           \* how many bytes of wire recv() has returned so far
  s_end,           \* how the reading ended: "none" | "sentinel" | "refused" |
                   \* "close" | "timeout" | "reset"
  buffer,          \* local 'buffer'
  response_lines,  \* local 'response_lines'
  status,          \* local 'status'
  sock,            \* "none" | "open" | "closed"
  s_result,        \* what the call returned or raised
  timeout,         \* parameter 'timeout' of the send, in seconds
  s_block,         \* how long connect and recv may block: [connect, recv]
  \* ---- the workspace and what runs on the machine (Spec) ----
  portFile,        \* <proj_dir>/.vproj-port: "absent" | "garbage" | a port
  lockFile,        \* a *.xpr.lck file is present in the project directory
  server,          \* per port: "none" | "vproj" | "hung" | "foreign"
  pending,         \* spawned daemon processes that have not bound a port yet
  logFile,         \* /tmp/vproj-<uid>.log: the lines written so far
  \* ---- the client process (Spec) ----
  c_pc,            \* position of the client
  op,              \* operation in progress: "none" | "auto" | "start" | "stop"
  flags,           \* [batch, gui, daemon] of run_vivado_tcl_auto
  settings,        \* a settings file was passed
  sd,              \* start_daemon frame: call site, loop counter, result
  st_info,         \* local 'info' of send_tcl
  os_site,         \* which call of run_vivado_tcl is running
  interrupted,     \* local 'interrupted' of run_vivado_tcl_auto
  intFlag,         \* the workspace's interrupt flag
  hist,            \* what this call has done so far
  outcome,         \* what the call returned or raised
  lastFind,        \* record of the last stand-alone find_server call
  \* ---- the output of one command, line by line (SpecOut) ----
  out_path,        \* "oneshot" (run_vivado_tcl) | "daemon" (handle_output)
  quiet,           \* parameter 'quiet'
  out_in,          \* the lines the process or the worker writes
  out_k,           \* how many of them have been handled
  output_lines,    \* local 'output_lines'
  out_ret,         \* the output text returned, or NoText
  \* ---- the one-shot process (Spec) ----
  proc,            \* the spawned process: [state, rc]
  os_interrupted,  \* local 'interrupted' of run_vivado_tcl
  tcl_path,        \* the temporary script file: "absent" | "present"
  \* ---- the SIGINT handler of the client process (Spec) ----
  sigint,          \* the handler in force
  old_handler,     \* local 'old_handler' of run_vivado_tcl_auto
  os_old_handler,  \* local 'old_handler' of run_vivado_tcl
  \* ---- one build_cmd call (SpecBuild) ----
  build,           \* its arguments, position, locals and what it launched
  \* ---- a second client calling start_daemon (SpecRace) ----
  c2_pc,           \* position of the second client
  c2_sd            \* its start_daemon frame

sendVars == <<tcl, worker, s_pc, request, wire, nrecv, s_end, buffer,
              response_lines, status, sock, s_result, timeout, s_block>>

timeoutVars == <<timeout, s_block>>

envVars == <<portFile, lockFile, server, pending>>

logVars == <<logFile>>

clientVars == <<c_pc, op, flags, settings, sd, st_info, os_site,
                interrupted, intFlag, hist, outcome, lastFind>>

\* the client's variables other than the record of the last find_server
clientRest == <<c_pc, op, flags, settings, sd, st_info, os_site,
                interrupted, intFlag, hist, outcome>>

outVars == <<out_path, quiet, out_in, out_k, output_lines, out_ret>>

oneshotVars == <<proc, os_interrupted, tcl_path>>

sigVars == <<sigint, old_handler, os_old_handler>>

otherVars == <<c2_pc, c2_sd>>

buildVars == <<build>>

restVars == <<outVars, oneshotVars, otherVars, sigVars, buildVars>>

vars == <<sendVars, envVars, logVars, clientVars, restVars>>

-----------------------------------------------------------------------------
(* Bounds *)

\* most lines in a payload / most output lines in a scripted reply
MaxLines == 2

\* largest partial read the byte-level specification tries, besides
\* "everything that is left"
MaxChunk == 3

\* most output lines of one command
MaxOut == 3

-----------------------------------------------------------------------------
(* Characters and the protocol's literal lines *)

LF == "LF"
CR == "CR"

S_OK           == <<"O", "K">>
S_ERROR        == <<"E", "R", "R", "O", "R">>
S_END_RESPONSE == <<"E", "N", "D", "_", "R", "E", "S", "P", "O", "N", "S", "E">>
S_END_CMD      == <<"E", "N", "D", "_", "C", "M", "D">>
S_PING         == <<"P", "I", "N", "G">>
S_PONG         == <<"P", "O", "N", "G">>
S_QUIT         == <<"Q", "U", "I", "T">>

\* daemon.py lines 20-21, in seconds
SOCKET_TIMEOUT == 5
COMMAND_TIMEOUT == 600

\* find_server line 91: timeout=2.0
PING_TIMEOUT == 2

\* recv(4096)
RECV_SIZE == 4096

\* line texts the checks draw from: empty, plain, and the reserved words
Bodies == { <<>>, <<"a">>, S_OK, S_ERROR, S_END_RESPONSE }

\* the bodies as they are, and some with a trailing carriage return
LineSet == Bodies \cup { b \o <<CR>> : b \in { <<"a">>, S_OK, S_END_RESPONSE } }

\* payload lines may also be the request sentinel
PayloadLineSet == LineSet \cup { S_END_CMD }

\* sequences over S of length lo..hi
SeqsOf(S, lo, hi) == UNION { [1..n -> S] : n \in lo..hi }

-----------------------------------------------------------------------------
(* Pure text functions *)

Min(a, b) == IF a < b THEN a ELSE b

\* "\n".join(lines)
RECURSIVE Join(_)
Join(lines) ==
  IF Len(lines) = 0 THEN <<>>
  ELSE IF Len(lines) = 1 THEN lines[1]
  ELSE lines[1] \o <<LF>> \o Join(Tail(lines))

\* b"\n" in buffer
HasLF(buf) == \E i \in 1..Len(buf) : buf[i] = LF

FirstLF(buf) == CHOOSE i \in 1..Len(buf) :
                  /\ buf[i] = LF
                  /\ \A j \in 1..(i-1) : buf[j] # LF

\* buffer.split(b"\n", 1) -> <<line, rest>>
SplitLF(buf) ==
  LET i == FirstLF(buf)
  IN  <<SubSeq(buf, 1, i - 1), SubSeq(buf, i + 1, Len(buf))>>

\* text.split("\n"): always at least one element
RECURSIVE SplitLines(_)
SplitLines(text) ==
  IF ~HasLF(text) THEN <<text>>
  ELSE LET sp == SplitLF(text) IN <<sp[1]>> \o SplitLines(sp[2])

\* a reader that leaves the carriage return on the line
RStripCR_keep(line) == line

\* str.rstrip("\r")
RECURSIVE RStripCR(_)
RStripCR(line) ==
  IF Len(line) > 0 /\ line[Len(line)] = CR
  THEN RStripCR(SubSeq(line, 1, Len(line) - 1))
  ELSE line

\* needle in text (substring test)
Contains(text, needle) ==
  \E i \in 0..(Len(text) - Len(needle)) :
     SubSeq(text, i + 1, i + Len(needle)) = needle

\* every line followed by LF
RECURSIVE Terminated(_)
Terminated(lines) ==
  IF Len(lines) = 0 THEN <<>>
  ELSE lines[1] \o <<LF>> \o Terminated(Tail(lines))

\* the bytes the client writes: each payload line + LF, then END_CMD LF
EncodeRequest(text) == Terminated(SplitLines(text)) \o S_END_CMD \o <<LF>>

-----------------------------------------------------------------------------
(* Results of a call *)

NoResult == [kind |-> "none", text |-> <<>>]
Return(text) == [kind |-> "return", text |-> text]
RaiseRuntimeError(text) == [kind |-> "RuntimeError", text |-> text]
RaiseOSError == [kind |-> "OSError", text |-> <<>>]

-----------------------------------------------------------------------------
(* _send_tcl_to_port: the response reader *)

\* lines 316-319: the read loop ended on an empty recv, without END_RESPONSE
AfterLoop(lines, st) ==
  IF st = "ERROR" THEN RaiseRuntimeError(Join(lines)) ELSE Return(Join(lines))

\* lines 305-308 as a variant that forgets the status
AtEndResponse_ignoreStatus(lines, st) == Return(Join(lines))

\* lines 305-308: END_RESPONSE closes the exchange
AtEndResponse(lines, st) ==
  IF st = "ERROR" THEN RaiseRuntimeError(Join(lines)) ELSE Return(Join(lines))

\* lines 300-314 as a variant that drops empty lines ("if line_str:")
RECURSIVE ProcessBuffer_skipEmpty(_, _, _)
ProcessBuffer_skipEmpty(buf, lines, st) ==
  IF ~HasLF(buf)
  THEN [fin |-> FALSE, buffer |-> buf, response_lines |-> lines,
        status |-> st, result |-> NoResult]
  ELSE LET sp       == SplitLF(buf)
           line_str == RStripCR(sp[1])
       IN  IF line_str = S_END_RESPONSE
           THEN [fin |-> TRUE, buffer |-> sp[2], response_lines |-> lines,
                 status |-> st, result |-> AtEndResponse(lines, st)]
           ELSE IF line_str = S_OK
           THEN ProcessBuffer_skipEmpty(sp[2], lines, "OK")
           ELSE IF line_str = S_ERROR
           THEN ProcessBuffer_skipEmpty(sp[2], lines, "ERROR")
           ELSE IF line_str = <<>>
           THEN ProcessBuffer_skipEmpty(sp[2], lines, st)
           ELSE ProcessBuffer_skipEmpty(sp[2], Append(lines, line_str), st)

\* lines 300-314 as a variant in which a status line ends the exchange
RECURSIVE ProcessBuffer_statusEnds(_, _, _)
ProcessBuffer_statusEnds(buf, lines, st) ==
  IF ~HasLF(buf)
  THEN [fin |-> FALSE, buffer |-> buf, response_lines |-> lines,
        status |-> st, result |-> NoResult]
  ELSE LET sp       == SplitLF(buf)
           line_str == RStripCR(sp[1])
       IN  IF line_str = S_END_RESPONSE
           THEN [fin |-> TRUE, buffer |-> sp[2], response_lines |-> lines,
                 status |-> st, result |-> AtEndResponse(lines, st)]
           ELSE IF line_str = S_OK
           THEN [fin |-> TRUE, buffer |-> sp[2], response_lines |-> lines,
                 status |-> "OK", result |-> AtEndResponse(lines, "OK")]
           ELSE IF line_str = S_ERROR
           THEN [fin |-> TRUE, buffer |-> sp[2], response_lines |-> lines,
                 status |-> "ERROR",
                 result |-> AtEndResponse(lines, "ERROR")]
           ELSE ProcessBuffer_statusEnds(sp[2], Append(lines, line_str), st)

\* lines 300-314: the inner loop over the complete lines of the buffer.
\* fin = TRUE when a return/raise left the function.
RECURSIVE ProcessBuffer(_, _, _)
ProcessBuffer(buf, lines, st) ==
  IF ~HasLF(buf)
  THEN [fin |-> FALSE, buffer |-> buf, response_lines |-> lines,
        status |-> st, result |-> NoResult]
  ELSE LET sp       == SplitLF(buf)
           line_str == RStripCR(sp[1])
       IN  IF line_str = S_END_RESPONSE
           THEN [fin |-> TRUE, buffer |-> sp[2], response_lines |-> lines,
                 status |-> st, result |-> AtEndResponse(lines, st)]
           ELSE IF line_str = S_OK    THEN ProcessBuffer(sp[2], lines, "OK")
           ELSE IF line_str = S_ERROR THEN ProcessBuffer(sp[2], lines, "ERROR")
           ELSE ProcessBuffer(sp[2], Append(lines, line_str), st)

\* The whole call as a function of what the peer does: refuses the
\* connection, or accepts, writes bytes w and then closes / stalls / resets.
SendTclToPort(conn, w, end) ==
  IF conn = "refused" THEN RaiseOSError
  ELSE LET r == ProcessBuffer(w, <<>>, "None")
       IN  IF r.fin THEN r.result
           ELSE IF end = "close" THEN AfterLoop(r.response_lines, r.status)
           ELSE RaiseOSError

-----------------------------------------------------------------------------
(* The peers of the byte-level specification *)

\* A worker that echoes every payload line it received before END_CMD as an
\* output line, then OK and END_RESPONSE.
RECURSIVE UpToEndCmd(_)
UpToEndCmd(lines) ==
  IF Len(lines) = 0 \/ lines[1] = S_END_CMD THEN <<>>
  ELSE <<lines[1]>> \o UpToEndCmd(Tail(lines))

\* the complete lines of a byte stream (what is before each LF)
RECURSIVE CompleteLines(_)
CompleteLines(bytes) ==
  IF ~HasLF(bytes) THEN <<>>
  ELSE LET sp == SplitLF(bytes) IN <<sp[1]>> \o CompleteLines(sp[2])

EchoReply(req) ==
  Terminated(UpToEndCmd(CompleteLines(req))) \o S_OK \o <<LF>>
     \o S_END_RESPONSE \o <<LF>>

\* A scripted worker: output lines, an optional status line, an optional
\* END_RESPONSE; eol is the terminator of the status and sentinel lines.
Frame(lines, st, sentinel, eol) ==
  Terminated(lines)
    \o (IF st = "OK" THEN S_OK \o eol
        ELSE IF st = "ERROR" THEN S_ERROR \o eol ELSE <<>>)
    \o (IF sentinel THEN S_END_RESPONSE \o eol ELSE <<>>)

Ends     == {"close", "timeout", "reset"}
Statuses == {"None", "OK", "ERROR"}
Eols     == { <<LF>>, <<CR, LF>> }

Payloads == { Join(ls) : ls \in SeqsOf(PayloadLineSet, 1, MaxLines) }

Scripts ==
  { [lines |-> ls, st |-> st, sentinel |-> se, eol |-> e] :
      ls \in SeqsOf(LineSet, 0, MaxLines), st \in Statuses,
      se \in BOOLEAN, e \in Eols }

NoScript == [lines |-> <<>>, st |-> "None", sentinel |-> FALSE, eol |-> <<LF>>]

ScriptWire(sc) == Frame(sc.lines, sc.st, sc.sentinel, sc.eol)

-----------------------------------------------------------------------------
(* _send_tcl_to_port, step by step *)

\* the client and the workspace take no part in the byte-level specification
LifeUnchanged == UNCHANGED <<envVars, logVars, clientVars, restVars>>

\* lines 279-282: settimeout(timeout) precedes connect(), so the connect
\* may block for the caller's timeout
ConnectTimeout(t) == t

\* lines 279, 295: each recv() may block for the caller's timeout
RecvTimeout(t) == t

\* nothing has blocked yet
NoBlock == [connect |-> 0, recv |-> 0]

\* the timeouts the callers pass: the ping and the default
Timeouts == {PING_TIMEOUT, COMMAND_TIMEOUT}

SendInit ==
  /\ \/ /\ tcl \in Payloads
        /\ worker = [kind |-> "echo", script |-> NoScript]
     \/ /\ tcl = S_PING
        /\ worker \in [kind : {"script"}, script : Scripts]
  /\ s_pc = "connect"
  /\ request = <<>>
  /\ wire = <<>>
  /\ nrecv = 0
  /\ s_end = "none"
  /\ buffer = <<>>
  /\ response_lines = <<>>
  /\ status = "None"
  /\ sock = "none"
  /\ s_result = NoResult
  /\ timeout \in Timeouts
  /\ s_block = NoBlock

\* lines 278-282: socket(), settimeout(), connect() succeeds
S_Connect ==
  /\ s_pc = "connect"
  /\ sock' = "open"
  /\ s_pc' = "send"
  /\ timeout' = timeout
  /\ s_block' = [s_block EXCEPT !.connect = ConnectTimeout(timeout)]
  /\ LifeUnchanged
  /\ UNCHANGED <<tcl, worker, request, wire, nrecv, s_end, buffer,
                 response_lines, status, s_result>>

\* lines 278-282: connect() raises (nothing listens on the port)
S_ConnectRefused ==
  /\ s_pc = "connect"
  /\ sock' = "open"
  /\ s_end' = "refused"
  /\ s_result' = RaiseOSError
  /\ s_pc' = "finally"
  /\ timeout' = timeout
  /\ s_block' = [s_block EXCEPT !.connect = ConnectTimeout(timeout)]
  /\ LifeUnchanged
  /\ UNCHANGED <<tcl, worker, request, wire, nrecv, buffer, response_lines,
                 status>>

\* lines 285-292: write the payload lines and END_CMD, reset the locals
S_SendCmd ==
  /\ s_pc = "send"
  /\ request' = EncodeRequest(tcl)
  /\ response_lines' = <<>>
  /\ buffer' = <<>>
  /\ status' = "None"
  /\ s_pc' = "reply"
  /\ timeout' = timeout
  /\ s_block' = [s_block EXCEPT !.recv = RecvTimeout(timeout)]
  /\ LifeUnchanged
  /\ UNCHANGED <<tcl, worker, wire, nrecv, s_end, sock, s_result>>

\* the worker has read the request and decides its whole reply
W_Reply ==
  /\ s_pc = "reply"
  /\ wire' = IF worker.kind = "echo" THEN EchoReply(request)
             ELSE ScriptWire(worker.script)
  /\ s_pc' = "recv"
  /\ LifeUnchanged
  /\ UNCHANGED timeoutVars
  /\ UNCHANGED <<tcl, worker, request, nrecv, s_end, buffer, response_lines,
                 status, sock, s_result>>

\* the sizes recv() may return when n bytes are still to come
ChunkSizes(n) ==
  { k \in 1..Min(RECV_SIZE, n) : k <= MaxChunk \/ k = Min(RECV_SIZE, n) }

\* lines 295-314: recv() returns the next k bytes; the complete lines of
\* the buffer are handled
S_Recv ==
  /\ s_pc = "recv"
  /\ nrecv < Len(wire)
  /\ \E k \in ChunkSizes(Len(wire) - nrecv) :
       LET chunk == SubSeq(wire, nrecv + 1, nrecv + k)
           r     == ProcessBuffer(buffer \o chunk, response_lines, status)
       IN  /\ nrecv' = nrecv + k
           /\ buffer' = r.buffer
           /\ response_lines' = r.response_lines
           /\ status' = r.status
           /\ s_result' = r.result
           /\ s_end' = IF r.fin THEN "sentinel" ELSE s_end
           /\ s_pc' = IF r.fin THEN "finally" ELSE "recv"
  /\ LifeUnchanged
  /\ UNCHANGED timeoutVars
  /\ UNCHANGED <<tcl, worker, request, wire, sock>>

\* lines 295-297, 316-319: recv() returns b"": the worker closed the
\* connection after everything it wrote was received
S_Eof ==
  /\ s_pc = "recv"
  /\ nrecv = Len(wire)
  /\ s_end' = "close"
  /\ s_result' = AfterLoop(response_lines, status)
  /\ s_pc' = "finally"
  /\ LifeUnchanged
  /\ UNCHANGED timeoutVars
  /\ UNCHANGED <<tcl, worker, request, wire, nrecv, buffer, response_lines,
                 status, sock>>

\* line 295: recv() raises socket.timeout or ConnectionResetError
S_RecvError ==
  /\ s_pc = "recv"
  /\ nrecv = Len(wire)
  /\ s_end' \in {"timeout", "reset"}
  /\ s_result' = RaiseOSError
  /\ s_pc' = "finally"
  /\ LifeUnchanged
  /\ UNCHANGED timeoutVars
  /\ UNCHANGED <<tcl, worker, request, wire, nrecv, buffer, response_lines,
                 status, sock>>

\* a close that is reached on the normal return only (no finally clause)
Finally_onReturnOnly(sk, res) ==
  IF res.kind = "return" THEN "closed" ELSE sk

\* lines 321-322: the finally clause closes the socket whatever left the
\* try block
Finally(sk, res) == "closed"

\* lines 321-322: sock.close()
S_Finally ==
  /\ s_pc = "finally"
  /\ sock' = Finally(sock, s_result)
  /\ s_pc' = "done"
  /\ LifeUnchanged
  /\ UNCHANGED timeoutVars
  /\ UNCHANGED <<tcl, worker, request, wire, nrecv, s_end, buffer,
                 response_lines, status, s_result>>

SendNext ==
  \/ S_Connect
  \/ S_ConnectRefused
  \/ S_SendCmd
  \/ W_Reply
  \/ S_Recv
  \/ S_Eof
  \/ S_RecvError
  \/ S_Finally


-----------------------------------------------------------------------------
(* The workspace, the ports and what answers on them *)

Ports == {"p1", "p2"}
NoPort == "none"

ServerKinds == {"none", "vproj", "hung", "foreign"}

\* for _ in range(60)
POLL_ATTEMPTS == 60

\* most spawned daemon processes waiting to bind that the model tracks
MaxPending == 2

\* most lines of the log file that the model tracks
MaxLog == 1

\* a line a daemon process writes to its stdout or stderr
LOG_LINE == "d"

\* the log file as a call may find it
Logs == UNION { [1..n -> {LOG_LINE}] : n \in 0..MaxLog }

\* what a one-shot run prints
BATCH_OUT == <<"o", "u", "t", LF>>

\* ServerInfo built without looking at the lock file
ServerInfo_noLock(running, port, is_gui) ==
  [running |-> running, port |-> port, is_gui |-> FALSE]

\* class ServerInfo (lines 50-63); proj_dir is the one workspace of the model
ServerInfo(running, port, is_gui) ==
  [running |-> running, port |-> port, is_gui |-> is_gui]

NoInfo == [running |-> FALSE, port |-> NoPort, is_gui |-> FALSE]

\* What the peer on a port does with a PING: nothing listens; the vproj
\* server acknowledges; a stalled server accepts and never answers; some
\* other service answers something else and closes.
PingPeer(kind) ==
  IF kind = "none" THEN [conn |-> "refused", wire |-> <<>>, end |-> "close"]
  ELSE IF kind = "vproj"
  THEN [conn |-> "accept", end |-> "close",
        wire |-> Frame(<<S_PONG>>, "OK", TRUE, <<LF>>)]
  ELSE IF kind = "hung"
  THEN [conn |-> "accept", wire |-> <<>>, end |-> "timeout"]
  ELSE [conn |-> "accept", wire |-> <<"a", LF>>, end |-> "close"]

\* _send_tcl_to_port(port, "PING", timeout=2.0) against each kind of peer
PingTable ==
  [kind \in ServerKinds |->
     LET pr == PingPeer(kind) IN SendTclToPort(pr.conn, pr.wire, pr.end)]

\* _send_tcl_to_port(port, "PING", timeout=2.0) against that peer
Ping(kind) == PingTable[kind]

\* the exceptions the read of the port file catches, OSError left out
ReadExcepts_valueOnly == {"ValueError"}

\* line 81: except (ValueError, OSError)
ReadExcepts == {"ValueError", "OSError"}

\* line 80: int(port_file.read_text().strip()); gone says that another
\* process removed the file after the exists() test of line 76
ReadPort(pf, gone) ==
  IF gone THEN [exc |-> "OSError", port |-> NoPort]
  ELSE IF pf = "garbage" THEN [exc |-> "ValueError", port |-> NoPort]
  ELSE [exc |-> "none", port |-> pf]

\* find_server (lines 76-82) when the port file existed at line 76 and is
\* gone at line 80
FindServerRaced(pf, lock) ==
  LET rd == ReadPort(pf, TRUE)
  IN  IF rd.exc \in ReadExcepts
      THEN [info |-> ServerInfo(FALSE, NoPort, lock), pf |-> "absent",
            exc |-> "none"]
      ELSE [info |-> NoInfo, pf |-> "absent", exc |-> rd.exc]

\* find_server that unlinks the port file of a server that answered
FindServer_unlinkOnPong(pf, lock, srv) ==
  IF pf \in Ports /\ Ping(srv[pf]).kind = "return"
                  /\ Contains(Ping(srv[pf]).text, S_PONG)
  THEN [info |-> ServerInfo(TRUE, pf, lock), pf |-> "absent"]
  ELSE [info |-> ServerInfo(FALSE, NoPort, lock),
        pf |-> IF pf \in Ports THEN "absent" ELSE pf]

\* find_server with the stale-file unlink left out
FindServer_noUnlink(pf, lock, srv) ==
  IF pf \in Ports /\ Ping(srv[pf]).kind = "return"
                  /\ Contains(Ping(srv[pf]).text, S_PONG)
  THEN [info |-> ServerInfo(TRUE, pf, lock), pf |-> pf]
  ELSE [info |-> ServerInfo(FALSE, NoPort, lock), pf |-> pf]

\* find_server (lines 66-106): the ServerInfo returned and the port file
\* left behind, from the port file, the lock file and the servers
FindServer(pf, lock, srv) ==
  IF pf = "absent"
  THEN [info |-> ServerInfo(FALSE, NoPort, lock), pf |-> pf]
  ELSE IF pf = "garbage"
  THEN [info |-> ServerInfo(FALSE, NoPort, lock), pf |-> pf]
  ELSE LET result == Ping(srv[pf])
       IN  IF result.kind = "return"
           THEN IF Contains(result.text, S_PONG)
                THEN [info |-> ServerInfo(TRUE, pf, lock), pf |-> pf]
                ELSE [info |-> ServerInfo(FALSE, NoPort, lock), pf |-> pf]
           ELSE [info |-> ServerInfo(FALSE, NoPort, lock), pf |-> "absent"]

\* _cleanup_files (lines 120-126)
CleanupFiles(pf) == "absent"

\* a clean-up that removes the lock file too
LockAfterCleanup_removed(lock) == FALSE

\* _cleanup_files (lines 120-126) unlinks the port file and nothing else:
\* the lock file as it leaves it
LockAfterCleanup(lock) == lock

-----------------------------------------------------------------------------
(* run_vivado_tcl_auto: the mode decisions (lines 262-312) *)

Raise(err)   == [act |-> "raise", err |-> err]
Goto(act)    == [act |-> act, err |-> "none"]

\* lines 292-312 with the lock check left out
AutoBlock_noLockCheck(i) ==
  IF ~i.running THEN Goto("start308") ELSE Goto("send")

\* lines 292-312: auto-detect
AutoBlock(i) ==
  IF ~i.running
  THEN IF i.is_gui THEN Raise("locked_no_server") ELSE Goto("start308")
  ELSE Goto("send")

\* lines 278-290: force daemon mode
DaemonBlock(f, i) ==
  IF f.daemon
  THEN IF i.is_gui THEN Raise("daemon_gui_locked")
       ELSE IF ~i.running THEN Goto("start288")
       ELSE AutoBlock(i)
  ELSE AutoBlock(i)

\* forced GUI mode that goes on to the other modes when no server answers
GuiBlock_noRaise(f, i) == DaemonBlock(f, i)

\* lines 262-276: force GUI mode
GuiBlock(f, i) ==
  IF f.gui /\ ~i.running
  THEN IF i.is_gui THEN Raise("gui_locked_no_server") ELSE Raise("no_gui")
  ELSE DaemonBlock(f, i)

\* results of the call
Returned(code, text) == [kind |-> "return", code |-> code, text |-> text,
                         err |-> "none"]
Raised(err) == [kind |-> "raise", code |-> -1, text |-> <<>>, err |-> err]
NoOutcome == [kind |-> "none", code |-> -1, text |-> <<>>, err |-> "none"]

\* what a stop_daemon call did
NoStop == [called |-> FALSE, pf0 |-> "n/a", running0 |-> FALSE, quits |-> 0,
           exch |-> "none", ret |-> "none", pfRet |-> "n/a",
           again |-> "n/a",
           alive |-> FALSE]

NoHist == [info0 |-> [running |-> FALSE, is_gui |-> FALSE],
           discovered |-> FALSE, startCalls |-> 0,
           spawns |-> 0, startRet |-> "none", sendWhy |-> "none",
           sendRes |-> NoResult, remote |-> "n/a", batchRuns |-> 0,
           batchRes |-> NoOutcome, stop |-> NoStop,
           osSig |-> FALSE, osFlag |-> FALSE, osTerm |-> FALSE,
           h0 |-> "none"]

\* the frame of a start_daemon call: where it was called from, the loop
\* counter, what it returned or raised, and what the call did
NoSd == [site |-> "none", i |-> 0, ret |-> "none",
         running0 |-> FALSE, gui0 |-> FALSE, noVivado |-> FALSE,
         spawned |-> FALSE, checks |-> 0,
         pfKept |-> TRUE, logKept |-> TRUE, pfRet |-> "n/a"]

NoFind == [called |-> FALSE, pfBefore |-> "absent", peer |-> "none",
           ping |-> "none", info |-> NoInfo, pfAfter |-> "absent",
           lock |-> FALSE, raced |-> FALSE, exc |-> "none", quiet |-> FALSE,
           prev |-> [valid |-> FALSE, running |-> FALSE, deleted |-> FALSE]]

\* no text
NoText == <<"none">>

\* poll_run_status returned None (build.py lines 65-66)
NoStatus == [none |-> TRUE, progress |-> 0, status |-> <<>>, errors |-> 0]

\* no build_cmd call is in progress
NoBuild == [pc |-> "idle", quiet |-> FALSE, synth_only |-> FALSE,
            no_bit |-> FALSE, do_program |-> FALSE,
            synth_status |-> NoStatus, impl_status |-> NoStatus,
            polls |-> 0, launched |-> {}, ret |-> -1]

\* the handlers the caller may have in force: Python's default, or ignore
CallerHandlers == {"default_int_handler", "SIG_IGN"}

\* no process
NoProc == [state |-> "none", rc |-> 0]

Flags == [batch : BOOLEAN, gui : BOOLEAN, daemon : BOOLEAN]

AutoMode(f) == ~f.batch /\ ~f.gui /\ ~f.daemon

-----------------------------------------------------------------------------
(* The environment: servers come and go, the GUI takes and drops the lock *)

\* the workspace changed after the last stand-alone find_server call
Disturbed(lf) == [lf EXCEPT !.quiet = FALSE]

FreePorts == { p \in Ports : server[p] = "none" }

\* a spawned daemon binds a free port and writes the port file (server.tcl)
Env_DaemonBinds ==
  /\ pending > 0
  /\ \E p \in FreePorts :
       /\ server' = [server EXCEPT ![p] = "vproj"]
       /\ portFile' = p
  /\ pending' = pending - 1
  /\ UNCHANGED <<lockFile, clientRest, sendVars, restVars, logVars>>
  /\ lastFind' = Disturbed(lastFind)

\* a spawned daemon exits before it listens (Vivado missing, licence, ...)
Env_DaemonFails ==
  /\ pending > 0
  /\ pending' = pending - 1
  /\ UNCHANGED <<portFile, lockFile, server, clientRest, sendVars, restVars, logVars>>
  /\ lastFind' = Disturbed(lastFind)

\* a server process goes away; its port file stays behind
Env_ServerDies ==
  /\ \E p \in Ports :
       /\ server[p] # "none"
       /\ server' = [server EXCEPT ![p] = "none"]
  /\ UNCHANGED <<portFile, lockFile, pending, clientRest, sendVars, restVars, logVars>>
  /\ lastFind' = Disturbed(lastFind)

\* a server stops answering (busy in a long command, stopped, wedged)
Env_ServerHangs ==
  /\ \E p \in Ports :
       /\ server[p] = "vproj"
       /\ server' = [server EXCEPT ![p] = "hung"]
  /\ UNCHANGED <<portFile, lockFile, pending, clientRest, sendVars, restVars, logVars>>
  /\ lastFind' = Disturbed(lastFind)

\* another program starts listening on a free port
Env_ForeignBinds ==
  /\ \E p \in FreePorts : server' = [server EXCEPT ![p] = "foreign"]
  /\ UNCHANGED <<portFile, lockFile, pending, clientRest, sendVars, restVars, logVars>>
  /\ lastFind' = Disturbed(lastFind)

\* a daemon process writes a line to the log file it was started with
Env_DaemonLogs ==
  /\ pending > 0 \/ \E p \in Ports : server[p] \in {"vproj", "hung"}
  /\ Len(logFile) < MaxLog
  /\ logFile' = Append(logFile, LOG_LINE)
  /\ UNCHANGED <<envVars, clientVars, sendVars, restVars>>

\* the Vivado GUI opens the project (lock file appears) or closes it
Env_GuiToggles ==
  /\ lockFile' = ~lockFile
  /\ UNCHANGED <<portFile, server, pending, clientRest, sendVars, restVars, logVars>>
  /\ lastFind' = Disturbed(lastFind)

\* the GUI, holding the lock, sources server.tcl: a server binds a free
\* port and writes the port file
Env_GuiStartsServer ==
  /\ lockFile
  /\ \E p \in FreePorts :
       /\ server' = [server EXCEPT ![p] = "vproj"]
       /\ portFile' = p
  /\ UNCHANGED <<lockFile, pending, clientRest, sendVars, restVars, logVars>>
  /\ lastFind' = Disturbed(lastFind)

-----------------------------------------------------------------------------
(* The client *)

\* the call recorded in lf unlinked the port file itself
DeletedBy(lf) ==
  /\ lf.called
  /\ ~lf.raced
  /\ lf.pfBefore \in Ports
  /\ lf.pfAfter = "absent"

\* a stand-alone find_server call (daemon_status, is_server_available);
\* gone: another process removes the port file between lines 76 and 80
C_FindServer ==
  /\ c_pc = "idle"
  /\ \E gone \in BOOLEAN :
       /\ gone => portFile # "absent"
       /\ LET r   == IF gone THEN FindServerRaced(portFile, lockFile)
                     ELSE FindServer(portFile, lockFile, server)
              exc == IF gone THEN FindServerRaced(portFile, lockFile).exc
                     ELSE "none"
          IN  /\ portFile' = r.pf
              /\ lastFind' =
                   [called   |-> TRUE,
                    pfBefore |-> portFile,
                    peer     |-> IF portFile \in Ports THEN server[portFile]
                                 ELSE "n/a",
                    ping     |-> IF portFile \in Ports
                                 THEN Ping(server[portFile]).kind ELSE "n/a",
                    info     |-> r.info,
                    pfAfter  |-> r.pf,
                    lock     |-> lockFile,
                    raced    |-> gone,
                    exc      |-> exc,
                    quiet    |-> TRUE,
                    prev     |->
                      IF lastFind.called /\ lastFind.quiet
                         /\ ~lastFind.raced /\ ~gone
                      THEN [valid   |-> TRUE,
                            running |-> lastFind.info.running,
                            deleted |-> DeletedBy(lastFind)]
                      ELSE NoFind.prev]
  /\ UNCHANGED <<lockFile, server, pending, c_pc, op, flags, settings,
                 sd, st_info, os_site, interrupted, intFlag, hist, outcome,
                 sendVars, restVars, logVars>>

\* run_vivado_tcl_auto is called
RVTA_Call ==
  /\ c_pc = "idle"
  /\ \E f \in Flags, s \in BOOLEAN :
       /\ flags' = f
       /\ settings' = s
  /\ op' = "auto"
  /\ c_pc' = "L252"
  /\ sd' = NoSd
  /\ st_info' = NoInfo
  /\ os_site' = "none"
  /\ interrupted' = FALSE
  /\ hist' = [NoHist EXCEPT !.h0 = sigint]
  /\ outcome' = NoOutcome
  /\ lastFind' = NoFind
  /\ UNCHANGED <<intFlag, envVars, sendVars, restVars, logVars>>

\* the batch flag ignored
ForceBatch_never(f) == FALSE

\* line 252: if batch
ForceBatch(f) == f.batch

\* lines 252-253: forced batch mode
RVTA_Batch ==
  /\ c_pc = "L252"
  /\ ForceBatch(flags)
  /\ c_pc' = "oneshot"
  /\ os_site' = "L253"
  /\ UNCHANGED <<op, flags, settings, sd, st_info, interrupted, intFlag,
                 hist, outcome, lastFind, envVars, sendVars, restVars, logVars>>

\* carry out a decision of the mode blocks
Take(d) ==
  /\ c_pc' = IF d.act = "raise" THEN "done"
             ELSE IF d.act \in {"start288", "start308"} THEN "sd_begin"
             ELSE IF d.act = "oneshot311" THEN "oneshot"
             ELSE "send_find"
  /\ sd' = IF d.act \in {"start288", "start308"}
           THEN [NoSd EXCEPT !.site = d.act] ELSE NoSd
  /\ os_site' = IF d.act = "oneshot311" THEN "L311" ELSE os_site
  /\ outcome' = IF d.act = "raise" THEN Raised(d.err) ELSE outcome
  /\ IF d.act = "send"
     THEN /\ old_handler' = sigint
          /\ sigint' = "auto_handler"
     ELSE UNCHANGED <<sigint, old_handler>>
  /\ UNCHANGED os_old_handler

\* lines 260-312: discovery and the mode blocks, up to the next call
RVTA_Discover ==
  /\ c_pc = "L252"
  /\ ~ForceBatch(flags)
  /\ LET r == FindServer(portFile, lockFile, server)
     IN  /\ portFile' = r.pf
         /\ hist' = [hist EXCEPT
                        !.info0 = [running |-> r.info.running,
                                   is_gui  |-> r.info.is_gui],
                        !.discovered = TRUE]
         /\ Take(GuiBlock(flags, r.info))
  /\ UNCHANGED <<lockFile, server, pending, op, flags, settings, st_info,
                 interrupted, intFlag, lastFind, sendVars, outVars, buildVars,
                 oneshotVars, otherVars, logVars>>

\* s is a prefix of t
IsPrefix(s, t) ==
  /\ Len(s) <= Len(t)
  /\ SubSeq(t, 1, Len(s)) = s

\* open(log_file, "w") (line 201): the file as the open leaves it
OpenLog(log) == <<>>

\* start_daemon that launches although a server answers
StartDecision_noEarlyReturn(i, hasSettings, inPath) ==
  IF i.is_gui /\ ~i.running THEN "sd_gui_locked"
  ELSE IF ~hasSettings /\ ~inPath THEN "vivado_not_found"
  ELSE "spawn"

\* start_daemon that does not look at the lock
StartDecision_noLockCheck(i, hasSettings, inPath) ==
  IF i.running THEN "True"
  ELSE IF ~hasSettings /\ ~inPath THEN "vivado_not_found"
  ELSE "spawn"

\* start_daemon that does not look for vivado on PATH
StartDecision_noWhich(i, hasSettings, inPath) ==
  IF i.running THEN "True"
  ELSE IF i.is_gui THEN "sd_gui_locked"
  ELSE "spawn"

\* start_daemon that refuses to launch while a spawned worker has not yet
\* bound its port
StartDecision_exclusive(i, hasSettings, inPath) ==
  IF i.running THEN "True"
  ELSE IF i.is_gui THEN "sd_gui_locked"
  ELSE IF ~hasSettings /\ ~inPath THEN "vivado_not_found"
  ELSE IF pending > 0 THEN "start_in_progress"
  ELSE "spawn"

\* start_daemon lines 147-195: return True, raise, or go on to the spawn;
\* inPath is shutil.which("vivado") is not None
StartDecision(i, hasSettings, inPath) ==
  IF i.running THEN "True"
  ELSE IF i.is_gui THEN "sd_gui_locked"
  ELSE IF ~hasSettings /\ ~inPath THEN "vivado_not_found"
  ELSE "spawn"

\* start_daemon lines 145-208: discovery, the early exits, the spawn
SD_Begin ==
  /\ c_pc = "sd_begin"
  /\ \E inPath \in BOOLEAN :
       LET r   == FindServer(portFile, lockFile, server)
           d   == StartDecision(r.info, settings, inPath)
           pf1 == IF d \in {"True", "sd_gui_locked"} THEN r.pf
                  ELSE CleanupFiles(r.pf)
           lg1 == IF d = "spawn" THEN OpenLog(logFile) ELSE logFile
       IN  /\ portFile' = pf1
           /\ lockFile' = IF d \in {"True", "sd_gui_locked"} THEN lockFile
                          ELSE LockAfterCleanup(lockFile)
           /\ logFile' = lg1
           /\ pending' = IF d = "spawn" THEN Min(pending + 1, MaxPending)
                         ELSE pending
           /\ sd' = [sd EXCEPT
                       !.i = 0,
                       !.ret = IF d = "spawn" THEN "none" ELSE d,
                       !.running0 = r.info.running,
                       !.gui0 = r.info.is_gui,
                       !.noVivado = ~settings /\ ~inPath,
                       !.spawned = (d = "spawn"),
                       !.pfKept = (pf1 = portFile),
                       !.logKept = IsPrefix(logFile, lg1),
                       !.pfRet = IF d = "spawn" THEN "n/a" ELSE pf1]
           /\ c_pc' = IF d = "spawn" THEN "sd_poll" ELSE "sd_return"
           /\ hist' = [hist EXCEPT
                         !.startCalls = @ + 1,
                         !.spawns = IF d = "spawn" THEN @ + 1 ELSE @]
  /\ UNCHANGED <<server, op, flags, settings, st_info,
                 os_site, interrupted, intFlag, outcome, lastFind, sendVars, restVars>>

\* the readiness check that is content with the port file
PollReady_fileOnly(pf, srv) == pf \in Ports

\* lines 213-220: one readiness check
PollReady(pf, srv) ==
  /\ pf \in Ports
  /\ Ping(srv[pf]).kind = "return"
  /\ Contains(Ping(srv[pf]).text, S_PONG)

\* start_daemon lines 211-222: sleep one second, check once
SD_Poll ==
  /\ c_pc = "sd_poll"
  /\ sd.i < POLL_ATTEMPTS
  /\ IF PollReady(portFile, server)
     THEN /\ sd' = [sd EXCEPT !.ret = "True", !.i = 0, !.pfRet = portFile]
          /\ c_pc' = "sd_return"
     ELSE /\ sd' = [sd EXCEPT !.i = @ + 1]
          /\ c_pc' = "sd_poll"
  /\ UNCHANGED <<envVars, op, flags, settings, st_info, os_site,
                 interrupted, intFlag, hist, outcome, lastFind, sendVars, restVars,
                 logVars>>

\* start_daemon lines 224-228: the loop ran out
SD_Exhausted ==
  /\ c_pc = "sd_poll"
  /\ sd.i = POLL_ATTEMPTS
  /\ portFile' = CleanupFiles(portFile)
  /\ lockFile' = LockAfterCleanup(lockFile)
  /\ sd' = [sd EXCEPT !.ret = "False", !.i = 0, !.checks = sd.i,
                      !.pfRet = CleanupFiles(portFile)]
  /\ c_pc' = "sd_return"
  /\ UNCHANGED <<server, pending, op, flags, settings,
                 st_info, os_site, interrupted, intFlag, hist, outcome,
                 lastFind, sendVars, restVars, logVars>>

\* start_daemon called on its own (vproj daemon start)
C_StartDaemon ==
  /\ c_pc = "idle"
  /\ \E s \in BOOLEAN : settings' = s
  /\ op' = "start"
  /\ c_pc' = "sd_begin"
  /\ sd' = [NoSd EXCEPT !.site = "cli"]
  /\ hist' = NoHist
  /\ outcome' = NoOutcome
  /\ lastFind' = NoFind
  /\ UNCHANGED <<flags, st_info, os_site, interrupted, intFlag, envVars,
                 sendVars, restVars, logVars>>

\* start_daemon returns to that caller, or raises
SD_Return ==
  /\ c_pc = "sd_return"
  /\ op = "start"
  /\ outcome' = IF sd.ret = "True" THEN Returned(0, <<>>)
                ELSE IF sd.ret = "False" THEN Returned(1, <<>>)
                ELSE Raised(sd.ret)
  /\ c_pc' = "done"
  /\ UNCHANGED <<op, flags, settings, sd, st_info, os_site, interrupted,
                 intFlag, hist, lastFind, envVars, sendVars, restVars, logVars>>

\* A second client process calls start_daemon on the same workspace
\* (vproj daemon start in another shell); its steps are those of the first
C2_StartDaemon ==
  /\ c2_pc = "idle"
  /\ c2_pc' = "sd_begin"
  /\ c2_sd' = [NoSd EXCEPT !.site = "cli"]
  /\ UNCHANGED <<envVars, logVars, clientVars, sendVars, outVars, buildVars,
                 oneshotVars, sigVars>>

\* start_daemon lines 145-208 in the second client
SD2_Begin ==
  /\ c2_pc = "sd_begin"
  /\ \E hasSettings \in BOOLEAN, inPath \in BOOLEAN :
       LET r   == FindServer(portFile, lockFile, server)
           d   == StartDecision(r.info, hasSettings, inPath)
           pf1 == IF d \in {"spawn", "vivado_not_found"}
                  THEN CleanupFiles(r.pf) ELSE r.pf
           lg1 == IF d = "spawn" THEN OpenLog(logFile) ELSE logFile
       IN  /\ portFile' = pf1
           /\ lockFile' = IF d \in {"spawn", "vivado_not_found"}
                          THEN LockAfterCleanup(lockFile) ELSE lockFile
           /\ logFile' = lg1
           /\ pending' = IF d = "spawn" THEN Min(pending + 1, MaxPending)
                         ELSE pending
           /\ c2_sd' = [c2_sd EXCEPT
                          !.i = 0,
                          !.ret = IF d = "spawn" THEN "none" ELSE d,
                          !.running0 = r.info.running,
                          !.gui0 = r.info.is_gui,
                          !.noVivado = ~hasSettings /\ ~inPath,
                          !.spawned = (d = "spawn")]
           /\ c2_pc' = IF d = "spawn" THEN "sd_poll" ELSE "sd_return"
  /\ lastFind' = Disturbed(lastFind)
  /\ UNCHANGED <<server, clientRest, sendVars, outVars, buildVars, oneshotVars,
                 sigVars>>

\* start_daemon lines 211-222 in the second client
SD2_Poll ==
  /\ c2_pc = "sd_poll"
  /\ c2_sd.i < POLL_ATTEMPTS
  /\ IF PollReady(portFile, server)
     THEN /\ c2_sd' = [c2_sd EXCEPT !.ret = "True", !.i = 0]
          /\ c2_pc' = "sd_return"
     ELSE /\ c2_sd' = [c2_sd EXCEPT !.i = @ + 1]
          /\ c2_pc' = "sd_poll"
  /\ UNCHANGED <<envVars, logVars, clientVars, sendVars, outVars, buildVars,
                 oneshotVars, sigVars>>

\* start_daemon lines 224-228 in the second client
SD2_Exhausted ==
  /\ c2_pc = "sd_poll"
  /\ c2_sd.i = POLL_ATTEMPTS
  /\ portFile' = CleanupFiles(portFile)
  /\ lockFile' = LockAfterCleanup(lockFile)
  /\ c2_sd' = [c2_sd EXCEPT !.ret = "False", !.i = 0]
  /\ c2_pc' = "sd_return"
  /\ lastFind' = Disturbed(lastFind)
  /\ UNCHANGED <<server, pending, logVars, clientRest, sendVars, outVars, buildVars,
                 oneshotVars, sigVars>>

\* the second client's call is over
SD2_Return ==
  /\ c2_pc = "sd_return"
  /\ c2_pc' = "idle"
  /\ c2_sd' = NoSd
  /\ UNCHANGED <<envVars, logVars, clientVars, sendVars, outVars, buildVars,
                 oneshotVars, sigVars>>

\* lines 308-311 as a variant that raises instead of falling back
AfterStart_noFallback(site, ret, i) ==
  IF ret \notin {"True", "False"} THEN Raise(ret)
  ELSE IF ret = "False" THEN Raise("daemon_start_failed")
  ELSE IF site = "start288" THEN AutoBlock(i) ELSE Goto("send")

\* lines 288-290 and 308-312: what follows the return of start_daemon;
\* i is the ServerInfo of the discovery that follows a True
AfterStart(site, ret, i) ==
  IF ret \notin {"True", "False"} THEN Raise(ret)
  ELSE IF site = "start288"
  THEN IF ret = "False" THEN Raise("daemon_start_failed") ELSE AutoBlock(i)
  ELSE IF ret = "False" THEN Goto("oneshot311") ELSE Goto("send")

RVTA_AfterStart ==
  /\ c_pc = "sd_return"
  /\ op = "auto"
  /\ LET r == FindServer(portFile, lockFile, server)
     IN  /\ portFile' = IF sd.ret = "True" THEN r.pf ELSE portFile
         /\ Take(AfterStart(sd.site, sd.ret, r.info))
  /\ hist' = [hist EXCEPT !.startRet = sd.ret]
  /\ UNCHANGED <<lockFile, server, pending, op, flags, settings, st_info,
                 interrupted, intFlag, lastFind, sendVars, outVars, buildVars,
                 oneshotVars, otherVars, logVars>>

\* handle_sigint (lines 321-326), while the handler of line 351 is installed
C_Sigint ==
  /\ c_pc \in {"send_find", "exchange"}
  /\ ~interrupted
  /\ interrupted' = TRUE
  /\ intFlag' = TRUE
  /\ UNCHANGED <<envVars, c_pc, op, flags, settings, sd, st_info,
                 os_site, hist, outcome, lastFind, sendVars, restVars, logVars>>

NOT_RUNNING == <<"S", "e", "r", "v", "e", "r", " ", "n", "o", "t", " ",
                 "r", "u", "n", "n", "i", "n", "g">>

\* lines 371-387 as a variant whose RuntimeError handler falls back
OnSendResult_fallbackOnError(res, intr) ==
  IF res.kind = "return"
  THEN [act |-> "return", out |-> Returned(IF intr THEN 130 ELSE 0, res.text)]
  ELSE [act |-> "oneshot387", out |-> NoOutcome]

\* lines 353-387: what run_vivado_tcl_auto does with the result of send_tcl
OnSendResult(res, intr) ==
  IF res.kind = "return"
  THEN [act |-> "return", out |-> Returned(IF intr THEN 130 ELSE 0, res.text)]
  ELSE IF res.kind = "RuntimeError"
  THEN [act |-> "return", out |-> Returned(1, res.text)]
  ELSE [act |-> "oneshot387", out |-> NoOutcome]

\* a finally clause that leaves the handler of the moment in place
RestoreHandler_none(cur, old) == cur

\* signal.signal(signal.SIGINT, old_handler) in the finally clauses
\* (vivado.py lines 198 and 389)
RestoreHandler(cur, old) == old

\* the return of the call with the interrupt flag left as it is
Finish_keepFlag(d) ==
  IF d.act = "return"
  THEN /\ outcome' = d.out
       /\ c_pc' = "done"
       /\ intFlag' = intFlag
       /\ os_site' = os_site
       /\ st_info' = NoInfo
       /\ sigint' = RestoreHandler(sigint, old_handler)
       /\ old_handler' = "none"
       /\ UNCHANGED os_old_handler
  ELSE /\ outcome' = outcome
       /\ c_pc' = "oneshot"
       /\ os_site' = "L387"
       /\ intFlag' = intFlag
       /\ st_info' = NoInfo
       /\ UNCHANGED sigVars

\* carry out OnSendResult; the finally clause (lines 388-390) clears the
\* interrupt flag when the call leaves here
Finish(d) ==
  IF d.act = "return"
  THEN /\ outcome' = d.out
       /\ c_pc' = "done"
       /\ intFlag' = FALSE
       /\ os_site' = os_site
       /\ st_info' = NoInfo
       /\ sigint' = RestoreHandler(sigint, old_handler)
       /\ old_handler' = "none"
       /\ UNCHANGED os_old_handler
  ELSE /\ outcome' = outcome
       /\ c_pc' = "oneshot"
       /\ os_site' = "L387"
       /\ intFlag' = intFlag
       /\ st_info' = NoInfo
       /\ UNCHANGED sigVars

\* send_tcl lines 344-347: discovery, "Server not running"
ST_Find ==
  /\ c_pc = "send_find"
  /\ LET r == FindServer(portFile, lockFile, server)
     IN  /\ portFile' = r.pf
         /\ IF ~r.info.running
            THEN /\ hist' = [hist EXCEPT
                               !.sendWhy = "not_running",
                               !.sendRes = RaiseRuntimeError(NOT_RUNNING)]
                 /\ Finish(OnSendResult(RaiseRuntimeError(NOT_RUNNING),
                                        interrupted))
            ELSE /\ hist' = hist
                 /\ st_info' = r.info
                 /\ c_pc' = "exchange"
                 /\ UNCHANGED <<outcome, intFlag, os_site, sigVars>>
  /\ UNCHANGED <<lockFile, server, pending, op, flags, settings, sd,
                 interrupted, lastFind, sendVars, outVars, buildVars, oneshotVars,
                 otherVars, logVars>>

\* what the peer on the port does with the command
CmdOut == << <<"a">> >>

CmdPeers(kind) ==
  IF kind = "vproj"
  THEN { [conn |-> "accept", end |-> e, wire |-> Frame(CmdOut, st, se, <<LF>>)] :
           e \in Ends, st \in Statuses, se \in BOOLEAN }
  ELSE { PingPeer(kind) }

\* send_tcl line 349: the exchange with the server on info.port
ST_Exchange ==
  /\ c_pc = "exchange"
  /\ \E pr \in CmdPeers(server[st_info.port]) :
       LET res == SendTclToPort(pr.conn, pr.wire, pr.end)
       IN  /\ hist' = [hist EXCEPT
                         !.sendWhy = "exchange",
                         !.sendRes = res,
                         !.remote = IF res.kind = "RuntimeError"
                                    THEN ProcessBuffer(pr.wire, <<>>, "None").status
                                    ELSE "n/a"]
           /\ Finish(OnSendResult(res, interrupted))
  /\ UNCHANGED <<envVars, op, flags, settings, sd, interrupted, lastFind,
                 sendVars, outVars, buildVars, oneshotVars, otherVars, logVars>>

\* positions of the client inside run_vivado_tcl
OneShotPcs == {"oneshot", "os_try", "os_spawned", "os_reading"}

\* exit codes of the Vivado batch process: success, failure, killed by
\* SIGTERM
ExitCodes == {0, 1, -15}

\* line 201: returncode = 130 if interrupted else proc.returncode
ReturnCode(intr, rc) == IF intr THEN 130 ELSE rc

\* a clean-up that is reached on the normal return only
FinallyUnlink_onReturn(path, how) ==
  IF how = "return" THEN "absent" ELSE path

\* lines 207-211: the outer finally clause unlinks the script file on
\* every way out of the try block of line 140
FinallyUnlink(path, how) == "absent"

\* the finally clause of run_vivado_tcl_auto (lines 388-390) after the call
\* of line 387; at the other call sites nothing follows
AfterCall387 ==
  IF os_site = "L387"
  THEN /\ intFlag' = FALSE
       /\ old_handler' = "none"
  ELSE UNCHANGED <<intFlag, old_handler>>

\* run_vivado_tcl lines 121-138: the script is written to a temporary
\* file, the command line and the locals are set up
OS_Write ==
  /\ c_pc = "oneshot"
  /\ c_pc' = "os_try"
  /\ tcl_path' = "present"
  /\ os_interrupted' = FALSE
  /\ hist' = [hist EXCEPT !.batchRuns = @ + 1]
  /\ UNCHANGED <<envVars, op, flags, settings, sd, st_info, os_site,
                 interrupted, intFlag, outcome, lastFind, sendVars, logVars,
                 outVars, buildVars, otherVars, sigVars, proc>>

\* run_vivado_tcl lines 140-156: Popen
OS_Spawn ==
  /\ c_pc = "os_try"
  /\ c_pc' = "os_spawned"
  /\ proc' = [state |-> "running", rc |-> 0]
  /\ UNCHANGED <<envVars, op, flags, settings, sd, st_info, os_site,
                 interrupted, intFlag, hist, outcome, lastFind, sendVars,
                 logVars, outVars, buildVars, otherVars, sigVars, os_interrupted,
                 tcl_path>>

\* run_vivado_tcl lines 140-156, 207-211: Popen raises OSError; no handler
\* was installed, the outer finally clause runs and the exception leaves
\* the function
OS_SpawnFails ==
  /\ c_pc = "os_try"
  /\ c_pc' = "done"
  /\ tcl_path' = FinallyUnlink(tcl_path, "raise")
  /\ LET res == Raised("OSError")
     IN  /\ outcome' = res
         /\ hist' = [hist EXCEPT !.batchRes = res]
  /\ sigint' = IF os_site = "L387" THEN RestoreHandler(sigint, old_handler)
               ELSE sigint
  /\ AfterCall387
  /\ UNCHANGED <<envVars, op, flags, settings, sd, st_info, os_site,
                 interrupted, lastFind, sendVars, logVars, outVars, buildVars,
                 otherVars, os_old_handler, proc, os_interrupted>>

\* run_vivado_tcl line 159: the handler of lines 133-138 is installed
OS_Install ==
  /\ c_pc = "os_spawned"
  /\ c_pc' = "os_reading"
  /\ os_old_handler' = sigint
  /\ sigint' = "oneshot_handler"
  /\ UNCHANGED <<envVars, op, flags, settings, sd, st_info, os_site,
                 interrupted, intFlag, hist, outcome, lastFind, sendVars,
                 logVars, outVars, buildVars, oneshotVars, otherVars, old_handler>>

\* SIGINT between the Popen and line 159, in the call of line 387: the
\* handler in place is still handle_sigint of run_vivado_tcl_auto
\* (lines 321-326)
OS_SigintEarly ==
  /\ c_pc = "os_spawned"
  /\ sigint = "auto_handler"
  /\ ~hist.osSig
  /\ interrupted' = TRUE
  /\ intFlag' = TRUE
  /\ hist' = [hist EXCEPT !.osSig = TRUE, !.osFlag = TRUE]
  /\ UNCHANGED <<envVars, c_pc, op, flags, settings, sd, st_info, os_site,
                 outcome, lastFind, sendVars, logVars, restVars>>

\* handle_sigint of run_vivado_tcl (lines 133-138): interrupted = True,
\* proc.terminate()
OS_Sigint ==
  /\ c_pc = "os_reading"
  /\ sigint = "oneshot_handler"
  /\ ~os_interrupted
  /\ os_interrupted' = TRUE
  /\ proc' = IF proc.state = "running"
             THEN [proc EXCEPT !.state = "terminated"] ELSE proc
  /\ hist' = [hist EXCEPT !.osSig = TRUE, !.osTerm = TRUE]
  /\ UNCHANGED <<envVars, c_pc, op, flags, settings, sd, st_info, os_site,
                 interrupted, intFlag, outcome, lastFind, sendVars, logVars,
                 outVars, buildVars, otherVars, sigVars, tcl_path>>

\* the Vivado process ends, by itself or on the SIGTERM
OS_ProcExit ==
  /\ c_pc \in {"os_spawned", "os_reading"}
  /\ proc.state \in {"running", "terminated"}
  /\ \E rc \in ExitCodes :
       /\ rc = -15 => proc.state = "terminated"
       /\ proc' = [state |-> "exited", rc |-> rc]
  /\ UNCHANGED <<envVars, clientVars, sendVars, logVars, outVars, buildVars,
                 os_interrupted, tcl_path, otherVars, sigVars>>

\* run_vivado_tcl lines 167-211: stdout is at its end, proc.wait() returns,
\* the old handler is restored, (returncode, output) is returned through
\* the outer finally clause; after the call of line 387 the finally clause
\* of lines 388-390 follows
OS_Return ==
  /\ c_pc = "os_reading"
  /\ proc.state = "exited"
  /\ LET res == Returned(ReturnCode(os_interrupted, proc.rc), BATCH_OUT)
     IN  /\ outcome' = res
         /\ hist' = [hist EXCEPT !.batchRes = res]
  /\ tcl_path' = FinallyUnlink(tcl_path, "return")
  /\ LET inner == RestoreHandler(sigint, os_old_handler)
     IN  sigint' = IF os_site = "L387"
                   THEN RestoreHandler(inner, old_handler) ELSE inner
  /\ os_old_handler' = "none"
  /\ AfterCall387
  /\ c_pc' = "done"
  /\ proc' = NoProc
  /\ os_interrupted' = FALSE
  /\ UNCHANGED <<envVars, op, flags, settings, sd, st_info, os_site,
                 interrupted, lastFind, sendVars, logVars, outVars, buildVars,
                 otherVars>>

\* stop_daemon that sends QUIT whatever discovery says
StopDecision_alwaysQuit(i) == "quit"

\* stop_daemon lines 240-245: nothing to stop, or go on to the shutdown
StopDecision(i) == IF ~i.running THEN "stopped" ELSE "quit"

\* the shutdown exchange with its errors let through
AfterQuit_propagate(res) ==
  IF res.kind = "return" THEN "cleanup" ELSE "raise"

\* stop_daemon lines 250-256: try the exchange, except Exception: pass
AfterQuit(res) == "cleanup"

\* what the peer on the port does with QUIT: the vproj server answers OK,
\* in full or cut short, and the connection then closes, resets or stalls
QuitPeers(kind) ==
  IF kind = "vproj"
  THEN { [conn |-> "accept", end |-> e,
          wire |-> Frame(<<>>, "OK", se, <<LF>>)] :
           e \in Ends, se \in BOOLEAN }
  ELSE { PingPeer(kind) }

\* the worker the port file named is still a live process with its
\* listening socket, answering or not
WorkerAlive(pf, srv) == pf \in Ports /\ srv[pf] \in {"vproj", "hung"}

\* stop_daemon (vproj daemon stop), lines 238-245: discovery; with no
\* server running, clean up and return True
C_StopDaemon ==
  /\ c_pc = "idle"
  /\ LET r == FindServer(portFile, lockFile, server)
         d == StopDecision(r.info)
         pf1 == IF d = "stopped" THEN CleanupFiles(r.pf) ELSE r.pf
     IN  /\ portFile' = pf1
         /\ lockFile' = IF d = "stopped" THEN LockAfterCleanup(lockFile)
                        ELSE lockFile
         /\ st_info' = IF d = "stopped" THEN NoInfo ELSE r.info
         /\ c_pc' = IF d = "stopped" THEN "done" ELSE "sp_quit"
         /\ outcome' = IF d = "stopped" THEN Returned(0, <<>>)
                       ELSE NoOutcome
         /\ hist' = [NoHist EXCEPT !.stop =
              [called   |-> TRUE,
               pf0      |-> portFile,
               running0 |-> r.info.running,
               quits    |-> 0,
               exch     |-> "none",
               ret      |-> IF d = "stopped" THEN "True" ELSE "none",
               pfRet    |-> IF d = "stopped" THEN pf1 ELSE "n/a",
               again    |-> IF d = "stopped"
                            THEN StopDecision(
                                   FindServer(pf1, lockFile, server).info)
                            ELSE "n/a",
               alive    |-> d = "stopped" /\ WorkerAlive(portFile, server)]]
  /\ op' = "stop"
  /\ lastFind' = NoFind
  /\ UNCHANGED <<server, pending, flags, settings, sd, os_site,
                 interrupted, intFlag, sendVars, restVars, logVars>>

\* stop_daemon lines 250-260: the QUIT exchange, the clean-up, return True;
\* a vproj server that received QUIT may exit
SP_Quit ==
  /\ c_pc = "sp_quit"
  /\ \E pr \in QuitPeers(server[st_info.port]), exits \in BOOLEAN :
       LET res == SendTclToPort(pr.conn, pr.wire, pr.end)
           a   == AfterQuit(res)
           pf1 == IF a = "cleanup" THEN CleanupFiles(portFile) ELSE portFile
           srv1 == IF server[st_info.port] = "vproj" /\ exits
                   THEN [server EXCEPT ![st_info.port] = "none"]
                   ELSE server
       IN  /\ server' = srv1
           /\ portFile' = pf1
           /\ lockFile' = IF a = "cleanup" THEN LockAfterCleanup(lockFile)
                          ELSE lockFile
           /\ outcome' = IF a = "cleanup" THEN Returned(0, <<>>)
                         ELSE Raised("quit_failed")
           /\ hist' = [hist EXCEPT
                         !.stop.quits = @ + 1,
                         !.stop.exch = res.kind,
                         !.stop.ret = IF a = "cleanup" THEN "True"
                                      ELSE "raise",
                         !.stop.pfRet = pf1,
                         !.stop.alive = WorkerAlive(st_info.port, srv1)]
  /\ st_info' = NoInfo
  /\ c_pc' = "done"
  /\ UNCHANGED <<pending, op, flags, settings, sd, os_site,
                 interrupted, intFlag, lastFind, sendVars, restVars, logVars>>

\* the caller takes the result; the client is ready for the next call
C_Return ==
  /\ c_pc = "done"
  /\ c_pc' = "idle"
  /\ op' = "none"
  /\ flags' = [batch |-> FALSE, gui |-> FALSE, daemon |-> FALSE]
  /\ settings' = FALSE
  /\ sd' = NoSd
  /\ st_info' = NoInfo
  /\ os_site' = "none"
  /\ interrupted' = FALSE
  /\ hist' = NoHist
  /\ outcome' = NoOutcome
  /\ UNCHANGED <<intFlag, lastFind, envVars, sendVars, restVars, logVars>>

-----------------------------------------------------------------------------
(* The output of a command: progress lines and the text returned *)

\* the reserved prefix of sim_progress_pattern (vivado.py lines 131, 316)
S_SIM_PROGRESS == <<"S", "I", "M", "_", "P", "R", "O", "G", "R", "E", "S",
                    "S", ":">>

\* l starts with p
HasPrefix(l, p) ==
  /\ Len(l) >= Len(p)
  /\ SubSeq(l, 1, Len(p)) = p

\* sim_progress_pattern.match(line): ^SIM_PROGRESS:(.+)$ wants at least one
\* character after the prefix
MatchesProgress(l) ==
  /\ HasPrefix(l, S_SIM_PROGRESS)
  /\ Len(l) > Len(S_SIM_PROGRESS)
  /\ \A i \in 1..Len(l) : l[i] # LF

\* line.rstrip('\n\r')
RECURSIVE RStripEol(_)
RStripEol(l) ==
  IF Len(l) > 0 /\ l[Len(l)] \in {LF, CR}
  THEN RStripEol(SubSeq(l, 1, Len(l) - 1))
  ELSE l

\* "".join(lines)
RECURSIVE Concat(_)
Concat(lines) ==
  IF Len(lines) = 0 THEN <<>> ELSE lines[1] \o Concat(Tail(lines))

\* lines 172-181 and 332-341: "if match and not quiet" skips the line,
\* every other line is appended to output_lines
KeepLine(stripped, q) == ~(MatchesProgress(stripped) /\ ~q)

\* the lines a command may print: plain text, a progress update, and the
\* bare marker
OutLineSet == { <<"x">>, S_SIM_PROGRESS \o <<"5">>, S_SIM_PROGRESS }

OutInputs == UNION { [1..n -> OutLineSet] : n \in 0..MaxOut }

OutOthersUnchanged ==
  UNCHANGED <<sendVars, envVars, logVars, clientVars, oneshotVars,
              otherVars, sigVars, buildVars>>

\* run_vivado_tcl lines 167-189: one iteration of "for line in proc.stdout"
OS_ReadLine ==
  /\ out_path = "oneshot"
  /\ out_ret = NoText
  /\ out_k < Len(out_in)
  /\ LET line == out_in[out_k + 1] \o <<LF>>
         line_stripped == RStripEol(line)
     IN  output_lines' = IF KeepLine(line_stripped, quiet)
                         THEN Append(output_lines, line)
                         ELSE output_lines
  /\ out_k' = out_k + 1
  /\ UNCHANGED <<out_path, quiet, out_in, out_ret>>
  /\ OutOthersUnchanged

\* run_vivado_tcl line 199: output = "".join(output_lines)
OS_Output ==
  /\ out_path = "oneshot"
  /\ out_ret = NoText
  /\ out_k = Len(out_in)
  /\ out_ret' = Concat(output_lines)
  /\ UNCHANGED <<out_path, quiet, out_in, out_k, output_lines>>
  /\ OutOthersUnchanged

\* handle_output (lines 328-349), called once for each line of the reply
HandleOutput ==
  /\ out_path = "daemon"
  /\ out_ret = NoText
  /\ out_k < Len(out_in)
  /\ LET line == out_in[out_k + 1]
     IN  output_lines' = IF KeepLine(line, quiet)
                         THEN Append(output_lines, line)
                         ELSE output_lines
  /\ out_k' = out_k + 1
  /\ UNCHANGED <<out_path, quiet, out_in, out_ret>>
  /\ OutOthersUnchanged

\* run_vivado_tcl_auto lines 365-367: full_output = "\n".join(output_lines),
\* send_tcl having returned nothing more
RVTA_Output ==
  /\ out_path = "daemon"
  /\ out_ret = NoText
  /\ out_k = Len(out_in)
  /\ out_ret' = Join(output_lines)
  /\ UNCHANGED <<out_path, quiet, out_in, out_k, output_lines>>
  /\ OutOthersUnchanged

OutNext ==
  \/ OS_ReadLine
  \/ OS_Output
  \/ HandleOutput
  \/ RVTA_Output

-----------------------------------------------------------------------------
(* Specifications *)

ClientIdle ==
  /\ c_pc = "idle"
  /\ op = "none"
  /\ flags = [batch |-> FALSE, gui |-> FALSE, daemon |-> FALSE]
  /\ settings = FALSE
  /\ sd = NoSd
  /\ st_info = NoInfo
  /\ os_site = "none"
  /\ interrupted = FALSE
  /\ intFlag = FALSE
  /\ hist = NoHist
  /\ outcome = NoOutcome
  /\ lastFind = NoFind

\* no call has touched the SIGINT handler: the one Python starts with is
\* in force
SigIdle ==
  /\ sigint = "default_int_handler"
  /\ old_handler = "none"
  /\ os_old_handler = "none"

\* no output is being handled, no one-shot process, no second client
RestQuiet ==
  /\ out_path = "none"
  /\ quiet = FALSE
  /\ out_in = <<>>
  /\ out_k = 0
  /\ output_lines = <<>>
  /\ out_ret = NoText
  /\ proc = NoProc
  /\ os_interrupted = FALSE
  /\ tcl_path = "absent"
  /\ c2_pc = "idle"
  /\ c2_sd = NoSd
  /\ build = NoBuild

RestIdle ==
  /\ RestQuiet
  /\ SigIdle

SendIdle ==
  /\ tcl = <<>>
  /\ worker = [kind |-> "none", script |-> NoScript]
  /\ s_pc = "off"
  /\ request = <<>>
  /\ wire = <<>>
  /\ nrecv = 0
  /\ s_end = "none"
  /\ buffer = <<>>
  /\ response_lines = <<>>
  /\ status = "None"
  /\ sock = "none"
  /\ s_result = NoResult
  /\ timeout = 0
  /\ s_block = NoBlock

\* the byte-level specification: one exchange, nothing else on the machine
SendSpecInit ==
  /\ SendInit
  /\ ClientIdle
  /\ RestIdle
  /\ portFile = "absent"
  /\ lockFile = FALSE
  /\ server = [p \in Ports |-> "none"]
  /\ pending = 0
  /\ logFile = <<>>

SpecSend == SendSpecInit /\ [][SendNext]_vars

\* The step-by-step reader and SendTclToPort agree on every exchange,
\* however the reply was cut into reads.
SendAgreesWithFunction ==
  (s_pc = "done" /\ s_end # "refused")
  => s_result = SendTclToPort("accept", wire,
                              IF s_end = "sentinel" THEN "close" ELSE s_end)

\* one command's output, on either path, with and without quiet
InitOut ==
  /\ SendIdle
  /\ ClientIdle
  /\ portFile = "absent"
  /\ lockFile = FALSE
  /\ server = [p \in Ports |-> "none"]
  /\ pending = 0
  /\ logFile = <<>>
  /\ out_path \in {"oneshot", "daemon"}
  /\ quiet \in BOOLEAN
  /\ out_in \in OutInputs
  /\ out_k = 0
  /\ output_lines = <<>>
  /\ out_ret = NoText
  /\ proc = NoProc
  /\ os_interrupted = FALSE
  /\ tcl_path = "absent"
  /\ c2_pc = "idle"
  /\ c2_sd = NoSd
  /\ build = NoBuild
  /\ SigIdle

SpecOut == InitOut /\ [][OutNext]_vars

\* the workspace as the client may find it
Init ==
  /\ SendIdle
  /\ ClientIdle
  /\ RestIdle
  /\ portFile \in {"absent", "garbage"} \cup Ports
  /\ lockFile \in BOOLEAN
  /\ server \in [Ports -> ServerKinds]
  /\ pending = 0
  /\ logFile = <<>>

Next ==
  \/ Env_DaemonBinds
  \/ Env_DaemonFails
  \/ Env_ServerDies
  \/ Env_ServerHangs
  \/ Env_ForeignBinds
  \/ Env_GuiToggles
  \/ Env_GuiStartsServer
  \/ C_FindServer
  \/ RVTA_Call
  \/ RVTA_Batch
  \/ RVTA_Discover
  \/ SD_Begin
  \/ SD_Poll
  \/ SD_Exhausted
  \/ RVTA_AfterStart
  \/ C_Sigint
  \/ ST_Find
  \/ ST_Exchange
  \/ OS_Write
  \/ OS_Spawn
  \/ OS_SpawnFails
  \/ OS_Install
  \/ OS_SigintEarly
  \/ OS_Sigint
  \/ OS_ProcExit
  \/ OS_Return
  \/ C_StopDaemon
  \/ SP_Quit
  \/ C_Return

Spec == Init /\ [][Next]_vars

\* run_vivado_tcl_auto and run_vivado_tcl alone, called with either of the
\* handlers a caller may have installed, on a workspace whose servers
\* answer or not and whose spawned daemons bind or die
InitRun ==
  /\ SendIdle
  /\ ClientIdle
  /\ RestQuiet
  /\ sigint \in CallerHandlers
  /\ old_handler = "none"
  /\ os_old_handler = "none"
  /\ portFile \in {"absent"} \cup Ports
  /\ lockFile \in BOOLEAN
  /\ server \in [Ports -> {"none", "vproj", "hung"}]
  /\ pending = 0
  /\ logFile = <<>>

NextRun ==
  \/ Env_DaemonBinds
  \/ Env_DaemonFails
  \/ RVTA_Call
  \/ RVTA_Batch
  \/ RVTA_Discover
  \/ SD_Begin
  \/ SD_Poll
  \/ SD_Exhausted
  \/ RVTA_AfterStart
  \/ C_Sigint
  \/ ST_Find
  \/ ST_Exchange
  \/ OS_Write
  \/ OS_Spawn
  \/ OS_SpawnFails
  \/ OS_Install
  \/ OS_SigintEarly
  \/ OS_Sigint
  \/ OS_ProcExit
  \/ OS_Return
  \/ C_Return

SpecRun == InitRun /\ [][NextRun]_vars

-----------------------------------------------------------------------------
(* build_cmd: synthesis, implementation, reports, programming *)

\* status polls that neither end a loop, per loop
MaxPolls == 2

\* str.upper() on the letters the status texts are made of
UpperChar(ch) ==
  CASE ch = "e" -> "E" [] ch = "r" -> "R" [] ch = "o" -> "O"
    [] ch = "u" -> "U" [] ch = "n" -> "N" [] OTHER -> ch

Upper(text) == [i \in 1..Len(text) |-> UpperChar(text[i])]

\* the STATUS property of a run: running, finished, or an error text in
\* either case
StatusTexts == { <<"R", "u", "n">>, <<"o", "k">>,
                 <<"E", "R", "R", "O", "R">>, <<"e", "r", "r", "o", "r">> }

\* what poll_run_status returns (build.py lines 64-91): None, or a
\* StageStatus
PollResults ==
  { NoStatus } \cup
  [none : {FALSE}, progress : {50, 100}, status : StatusTexts,
   errors : {0, 1}]

\* StageStatus.is_failed (progress.py lines 26-28)
IsFailed(st) == st.errors > 0 \/ Contains(Upper(st.status), S_ERROR)

\* is_complete that looks at the progress only
IsComplete_progressOnly(st) == st.progress = 100

\* StageStatus.is_complete (progress.py lines 30-32)
IsComplete(st) == st.progress = 100 /\ ~IsFailed(st)

\* build.py lines 257, 315, 414, 445: the polling loop ends
LoopEnds(st) == ~st.none /\ (IsComplete(st) \/ IsFailed(st))

\* build.py lines 262, 320, 418, 449: the stage did not complete
StageFailed(st) == st.none \/ ~IsComplete(st)

\* return codes of run_vivado_tcl_auto and program_device
Codes == {0, 1, 130}

BuildOthersUnchanged ==
  UNCHANGED <<sendVars, envVars, logVars, clientVars, outVars, oneshotVars,
              otherVars, sigVars>>

BuildReturns(code) == [build EXCEPT !.pc = "done", !.ret = code, !.polls = 0]

\* build_cmd is called (lines 141-214)
B_Call ==
  /\ build.pc = "idle"
  /\ \E q \in BOOLEAN, so \in BOOLEAN, nb \in BOOLEAN, dp \in BOOLEAN :
       build' = [NoBuild EXCEPT !.pc = "launch_synth", !.quiet = q,
                                !.synth_only = so, !.no_bit = nb,
                                !.do_program = dp]
  /\ BuildOthersUnchanged

\* lines 216-232: launch synthesis; a non-zero code is returned
B_LaunchSynth ==
  /\ build.pc = "launch_synth"
  /\ \E code \in Codes :
       LET b == [build EXCEPT !.launched = @ \cup {"synth"}]
       IN  build' = IF code # 0
                    THEN [b EXCEPT !.pc = "done", !.ret = code]
                    ELSE [b EXCEPT !.pc = "poll_synth"]
  /\ BuildOthersUnchanged

\* lines 251-259 and 412-416: one poll of synth_1
B_PollSynth ==
  /\ build.pc = "poll_synth"
  /\ \E r \in PollResults :
       /\ ~LoopEnds(r) => build.polls < MaxPolls
       /\ build' = IF LoopEnds(r)
                    THEN [build EXCEPT !.synth_status = r, !.polls = 0,
                                       !.pc = "check_synth"]
                    ELSE [build EXCEPT !.synth_status = r, !.polls = @ + 1]
  /\ BuildOthersUnchanged

\* lines 262-280 and 418-426: return 3, or close and return 0 (synth_only),
\* or go on
B_CheckSynth ==
  /\ build.pc = "check_synth"
  /\ build' = IF StageFailed(build.synth_status) THEN BuildReturns(3)
               ELSE IF build.synth_only
               THEN [BuildReturns(0) EXCEPT !.launched = @ \cup {"close"}]
               ELSE [build EXCEPT !.pc = "launch_impl"]
  /\ BuildOthersUnchanged

\* lines 283-304 and 429-440: launch implementation
B_LaunchImpl ==
  /\ build.pc = "launch_impl"
  /\ \E code \in Codes :
       LET b == [build EXCEPT !.launched = @ \cup {"impl"}]
       IN  build' = IF code # 0
                    THEN [b EXCEPT !.pc = "done", !.ret = code]
                    ELSE [b EXCEPT !.pc = "poll_impl"]
  /\ BuildOthersUnchanged

\* lines 309-317 and 443-447: one poll of impl_1
B_PollImpl ==
  /\ build.pc = "poll_impl"
  /\ \E r \in PollResults :
       /\ ~LoopEnds(r) => build.polls < MaxPolls
       /\ build' = IF LoopEnds(r)
                    THEN [build EXCEPT !.impl_status = r, !.polls = 0,
                                       !.pc = "check_impl"]
                    ELSE [build EXCEPT !.impl_status = r, !.polls = @ + 1]
  /\ BuildOthersUnchanged

\* lines 320-325 and 449-450: return 4, or go on
B_CheckImpl ==
  /\ build.pc = "check_impl"
  /\ build' = IF StageFailed(build.impl_status) THEN BuildReturns(4)
               ELSE [build EXCEPT !.pc = "reports"]
  /\ BuildOthersUnchanged

\* lines 334-393 and 453-476: the reports, then programming if it was
\* asked for and a bitstream file is there
B_Reports ==
  /\ build.pc = "reports"
  /\ \E bit \in BOOLEAN, prog_result \in Codes :
       LET b == [build EXCEPT !.launched = @ \cup {"reports"}]
       IN  build' = IF build.do_program /\ ~build.no_bit /\ bit
                    THEN [b EXCEPT !.launched = @ \cup {"program"},
                                   !.pc = "done", !.ret = prog_result]
                    ELSE [b EXCEPT !.pc = "done", !.ret = 0]
  /\ BuildOthersUnchanged

\* the call is over
B_Return ==
  /\ build.pc = "done"
  /\ build' = NoBuild
  /\ BuildOthersUnchanged

InitBuild ==
  /\ SendIdle
  /\ ClientIdle
  /\ RestIdle
  /\ portFile = "absent"
  /\ lockFile = FALSE
  /\ server = [p \in Ports |-> "none"]
  /\ pending = 0
  /\ logFile = <<>>

NextBuild ==
  \/ B_Call
  \/ B_LaunchSynth
  \/ B_PollSynth
  \/ B_CheckSynth
  \/ B_LaunchImpl
  \/ B_PollImpl
  \/ B_CheckImpl
  \/ B_Reports
  \/ B_Return

SpecBuild == InitBuild /\ [][NextBuild]_vars

\* the daemon commands on their own: status, start and stop, with a log
\* file that earlier daemons have written to
InitCtl ==
  /\ SendIdle
  /\ ClientIdle
  /\ RestIdle
  /\ portFile \in {"absent", "garbage"} \cup Ports
  /\ lockFile \in BOOLEAN
  /\ server \in [Ports -> ServerKinds]
  /\ pending = 0
  /\ logFile \in Logs

NextCtl ==
  \/ Env_DaemonBinds
  \/ Env_DaemonFails
  \/ Env_ServerDies
  \/ Env_ServerHangs
  \/ Env_ForeignBinds
  \/ Env_GuiToggles
  \/ Env_GuiStartsServer
  \/ Env_DaemonLogs
  \/ C_FindServer
  \/ C_StartDaemon
  \/ SD_Begin
  \/ SD_Poll
  \/ SD_Exhausted
  \/ SD_Return
  \/ C_StopDaemon
  \/ SP_Quit
  \/ C_Return

SpecCtl == InitCtl /\ [][NextCtl]_vars

\* start_daemon on its own, with the daemons it spawns; the polling loop
\* keeps running: time.sleep(1) returns and the next check is made
InitStart ==
  /\ SendIdle
  /\ ClientIdle
  /\ RestIdle
  /\ portFile \in {"absent", "garbage"} \cup Ports
  /\ lockFile \in BOOLEAN
  /\ server \in [Ports -> {"none", "vproj"}]
  /\ pending = 0
  /\ logFile = <<>>

NextStart ==
  \/ Env_DaemonBinds
  \/ Env_DaemonFails
  \/ Env_ServerDies
  \/ Env_ServerHangs
  \/ C_StartDaemon
  \/ SD_Begin
  \/ SD_Poll
  \/ SD_Exhausted
  \/ SD_Return
  \/ C_Return

SpecStart ==
  /\ InitStart
  /\ [][NextStart]_vars
  /\ WF_vars(SD_Poll)
  /\ WF_vars(SD_Exhausted)

\* two client processes call start_daemon on one workspace on which no
\* server runs; each spawned daemon binds a port or dies
InitRace ==
  /\ SendIdle
  /\ ClientIdle
  /\ RestIdle
  /\ portFile \in {"absent", "garbage"} \cup Ports
  /\ lockFile \in BOOLEAN
  /\ server = [p \in Ports |-> "none"]
  /\ pending = 0
  /\ logFile = <<>>

NextRace ==
  \/ Env_DaemonBinds
  \/ Env_DaemonFails
  \/ C_StartDaemon
  \/ SD_Begin
  \/ SD_Poll
  \/ SD_Exhausted
  \/ SD_Return
  \/ C_Return
  \/ C2_StartDaemon
  \/ SD2_Begin
  \/ SD2_Poll
  \/ SD2_Exhausted
  \/ SD2_Return

SpecRace == InitRace /\ [][NextRace]_vars

-----------------------------------------------------------------------------
(* Claims about the exchange (checked under SpecSend) *)

\* the payload lines of the call
PayloadLines == SplitLines(tcl)

\* a line the reader appends to the output unchanged: it carries no trailing
\* carriage return and is neither a status word nor the closing sentinel
IsOutputLine(l) ==
  /\ RStripCR(l) = l
  /\ l \notin {S_OK, S_ERROR, S_END_RESPONSE}

\* C1 (as claimed): when the worker closes the connection before a complete
\* END_RESPONSE line was received, the send raises a transport failure.
C1_DisconnectRaisesTransport ==
  (s_pc = "done" /\ s_end = "close") => s_result.kind = "OSError"

\* C2: a reply of output lines L1..Ln, then ERROR, then END_RESPONSE makes
\* the send raise RuntimeError carrying exactly L1..Ln joined by newlines,
\* and no socket error.
C2_ErrorPropagation ==
  ( /\ s_pc = "done"
    /\ worker.kind = "script"
    /\ worker.script.st = "ERROR"
    /\ worker.script.sentinel
    /\ \A i \in 1..Len(worker.script.lines) :
          IsOutputLine(worker.script.lines[i])
    /\ wire = ScriptWire(worker.script) )
  => s_result = RaiseRuntimeError(Join(worker.script.lines))

C2_Witness ==
  /\ s_pc = "done"
  /\ worker.kind = "script"
  /\ worker.script.st = "ERROR"
  /\ worker.script.sentinel
  /\ worker.script.lines = << <<"a">>, <<>> >>
  /\ wire = ScriptWire(worker.script)
  /\ s_result = RaiseRuntimeError(<<"a", LF>>)

\* C3 (as claimed): against the echoing worker, every payload whose lines
\* are none of END_CMD, END_RESPONSE comes back as the returned output.
C3_RoundTripAnyLines ==
  ( /\ s_pc = "done"
    /\ worker.kind = "echo"
    /\ s_end = "sentinel"
    /\ \A i \in 1..Len(PayloadLines) :
          PayloadLines[i] \notin {S_END_CMD, S_END_RESPONSE} )
  => s_result = Return(tcl)

\* C3 (amended): against the echoing worker, every payload whose lines are
\* none of END_CMD, END_RESPONSE, OK, ERROR and do not end in a carriage
\* return comes back as the returned output, line for line and in order.
C3_RoundTrip ==
  ( /\ s_pc = "done"
    /\ worker.kind = "echo"
    /\ s_end = "sentinel"
    /\ \A i \in 1..Len(PayloadLines) :
          /\ PayloadLines[i] # S_END_CMD
          /\ IsOutputLine(PayloadLines[i]) )
  => /\ s_result.kind = "return"
     /\ SplitLines(s_result.text) = PayloadLines

C3_Witness ==
  /\ s_pc = "done"
  /\ worker.kind = "echo"
  /\ s_end = "sentinel"
  /\ PayloadLines = << <<>>, <<"a">> >>
  /\ s_result = Return(<<LF, "a">>)

\* C28 (as claimed): the connect step of a send may block for a few seconds
\* at most, whatever timeout the caller passed; the reads may block for the
\* caller's timeout.
C28_ConnectTimeoutShort ==
  s_pc # "connect"
  => /\ s_block.connect <= SOCKET_TIMEOUT
     /\ s_block.recv # 0 => s_block.recv = timeout

-----------------------------------------------------------------------------
(* Claims about the output text (checked under SpecOut) *)

\* the lines of the command that do not carry the progress prefix
PlainLines == SelectSeq(out_in, LAMBDA l : ~HasPrefix(l, S_SIM_PROGRESS))

\* C27 (as claimed): the text returned holds no line that carries the
\* SIM_PROGRESS: prefix, with or without quiet and on both paths, and holds
\* every other line once and in order.
C27_ProgressNeverReturned ==
  out_ret # NoText
  => out_ret = IF out_path = "oneshot"
               THEN Concat([i \in 1..Len(PlainLines) |->
                               PlainLines[i] \o <<LF>>])
               ELSE Join(PlainLines)

-----------------------------------------------------------------------------
(* Claims about the dispatcher and discovery (checked under Spec) *)

\* C4: in every mode, a daemon exchange that ends with the remote status
\* ERROR makes run_vivado_tcl_auto return code 1 with the remote output as
\* the text, and no one-shot process is run.
C4_RemoteErrorNoFallback ==
  hist.remote = "ERROR"
  => /\ c_pc = "done"
     /\ hist.sendRes = RaiseRuntimeError(Join(CmdOut))
     /\ outcome = Returned(1, Join(CmdOut))
     /\ hist.batchRuns = 0

C4_Witness ==
  /\ c_pc = "done"
  /\ hist.remote = "ERROR"
  /\ flags.gui
  /\ outcome = Returned(1, <<"a">>)

\* C5 (as claimed): send_tcl raises RuntimeError only when the worker
\* replied with status ERROR; finding the server not reachable at its own
\* discovery is raised as the transport kind.
C5_FailureKindsDistinct ==
  /\ hist.sendRes.kind = "RuntimeError" => hist.remote = "ERROR"
  /\ hist.sendWhy = "not_running" => hist.sendRes.kind = "OSError"

\* C6: in automatic mode, with no lock and no reachable server at the first
\* discovery, a start_daemon that returns False is followed by exactly one
\* one-shot run whose result (its return value, or the exception of a Popen
\* that failed) is what the call ends with; no launch failure is raised.
C6_StartFailureFallsBack ==
  ( /\ AutoMode(flags)
    /\ hist.discovered
    /\ ~hist.info0.running
    /\ ~hist.info0.is_gui
    /\ hist.startRet = "False" )
  => /\ c_pc \in OneShotPcs \cup {"done"}
     /\ c_pc = "done" => /\ hist.batchRuns = 1
                         /\ outcome.err # "daemon_start_failed"
                         /\ outcome = hist.batchRes

C6_Witness ==
  /\ c_pc = "done"
  /\ AutoMode(flags)
  /\ hist.discovered
  /\ hist.startRet = "False"
  /\ hist.batchRuns = 1
  /\ outcome = Returned(0, BATCH_OUT)

\* C7: in automatic mode, a first discovery that reports the lock and no
\* reachable server ends the call with the lock-conflict error; start_daemon
\* is not called, nothing is spawned, no one-shot process is run.
C7_LockShortCircuit ==
  ( /\ AutoMode(flags)
    /\ hist.discovered
    /\ hist.info0.is_gui
    /\ ~hist.info0.running )
  => /\ c_pc = "done"
     /\ outcome = Raised("locked_no_server")
     /\ hist.startCalls = 0
     /\ hist.spawns = 0
     /\ hist.batchRuns = 0

C7_Witness ==
  /\ c_pc = "done"
  /\ AutoMode(flags)
  /\ hist.discovered
  /\ hist.info0.is_gui
  /\ ~hist.info0.running
  /\ outcome = Raised("locked_no_server")

\* C8 (as claimed): with gui or daemon forced, a transport failure of the
\* daemon exchange does not re-run the command in a one-shot process.
C8_FallbackOnlyInAuto ==
  ( /\ hist.sendRes.kind = "OSError"
    /\ (flags.gui \/ flags.daemon) )
  => /\ c_pc \notin OneShotPcs
     /\ hist.batchRuns = 0

\* C9: a find_server call that finds a port file naming a port on which
\* nothing listens leaves no port file and reports not reachable.
C9_StaleFileCleanup ==
  ( /\ lastFind.called
    /\ lastFind.pfBefore \in Ports
    /\ lastFind.peer = "none" )
  => /\ lastFind.pfAfter = "absent"
     /\ ~lastFind.info.running

C9_Witness ==
  /\ lastFind.called
  /\ lastFind.pfBefore = "p1"
  /\ lastFind.peer = "none"
  /\ lastFind.pfAfter = "absent"
  /\ ~lastFind.info.running

\* C10 (as claimed): whenever a port file exists and the ping does not
\* succeed (timeout, refusal, or an exchange that completes without PONG),
\* find_server has deleted the port file when it returns not reachable.
C10_FailedPingDeletes ==
  ( /\ lastFind.called
    /\ lastFind.pfBefore \in Ports
    /\ ~lastFind.info.running )
  => /\ lastFind.pfAfter = "absent"
     /\ lastFind.info.port = NoPort

\* C11: two consecutive find_server calls with nothing happening in the
\* workspace between them report the same running value, and at most one
\* of the two unlinks the port file.
C11_PingIdempotent ==
  (lastFind.called /\ lastFind.prev.valid)
  => /\ lastFind.info.running = lastFind.prev.running
     /\ ~(lastFind.prev.deleted /\ DeletedBy(lastFind))

C11_Witness ==
  /\ lastFind.called
  /\ lastFind.prev.valid
  /\ lastFind.prev.deleted
  /\ ~lastFind.prev.running
  /\ ~lastFind.info.running
  /\ lastFind.pfBefore = "absent"

\* C12: a ServerInfo returned by find_server carries a port exactly when
\* running is true, and its is_gui says whether a lock file was present at
\* the call.
C12_PortIffRunning ==
  lastFind.called
  => /\ (lastFind.info.port # NoPort) <=> lastFind.info.running
     /\ lastFind.info.is_gui = lastFind.lock

C12_Witness ==
  /\ lastFind.called
  /\ lastFind.info.running
  /\ lastFind.info.port = "p1"
  /\ lastFind.info.is_gui
  /\ lastFind.lock

\* C13: find_server raises nothing; with the port file missing, not an
\* integer, removed by another process during the call, or with a ping that
\* is not acknowledged, it returns running = false.
C13_DiscoveryNeverRaises ==
  lastFind.called
  => /\ lastFind.exc = "none"
     /\ ( \/ lastFind.pfBefore \notin Ports
          \/ lastFind.raced
          \/ lastFind.peer # "vproj" ) => ~lastFind.info.running

C13_Witness ==
  /\ lastFind.called
  /\ lastFind.raced
  /\ lastFind.pfBefore = "p1"
  /\ lastFind.peer = "vproj"
  /\ lastFind.exc = "none"
  /\ ~lastFind.info.running

-----------------------------------------------------------------------------
(* Claims about the modes and the interrupt (checked under Spec) *)

\* a server answers on the port the port file names
Reachable == portFile \in Ports /\ server[portFile] = "vproj"

\* C21: with batch forced, run_vivado_tcl_auto makes no discovery, starts no
\* daemon, opens no connection and leaves the port file alone; it runs the
\* command in one disposable process and returns that run's result.
C21_BatchTouchesNothing ==
  /\ []( (op = "auto" /\ flags.batch)
          => /\ c_pc \in {"L252", "done"} \cup OneShotPcs
             /\ ~hist.discovered
             /\ hist.startCalls = 0
             /\ hist.spawns = 0
             /\ hist.sendWhy = "none"
             /\ hist.sendRes = NoResult
             /\ c_pc = "done" => /\ hist.batchRuns = 1
                                 /\ outcome = hist.batchRes )
  /\ [][ (op = "auto" /\ flags.batch /\ c_pc' # c_pc)
          => portFile' = portFile ]_vars

C21_Witness ==
  /\ op = "auto"
  /\ flags.batch
  /\ c_pc = "done"
  /\ Reachable
  /\ hist.batchRuns = 1
  /\ ~hist.discovered
  /\ outcome = Returned(0, BATCH_OUT)

\* C22: with gui forced (and batch not), a first discovery that finds no
\* running server ends the call with an error, the remediation text when
\* the lock is present and the plain one when it is not; start_daemon is
\* not called and no one-shot process is run.
C22_GuiModeNeverStarts ==
  ( /\ op = "auto"
    /\ ~flags.batch
    /\ flags.gui
    /\ hist.discovered
    /\ ~hist.info0.running )
  => /\ c_pc = "done"
     /\ outcome = Raised(IF hist.info0.is_gui THEN "gui_locked_no_server"
                         ELSE "no_gui")
     /\ hist.startCalls = 0
     /\ hist.spawns = 0
     /\ hist.batchRuns = 0
     /\ hist.sendWhy = "none"

C22_Witness ==
  /\ op = "auto"
  /\ flags.gui
  /\ ~flags.batch
  /\ c_pc = "done"
  /\ hist.discovered
  /\ ~hist.info0.running
  /\ ~hist.info0.is_gui
  /\ outcome = Raised("no_gui")

\* C23 (as claimed): with daemon forced, the call fails because of the lock
\* only when the first discovery finds the lock and no running server.
C23_DaemonModeLockFailure ==
  ( /\ op = "auto"
    /\ ~flags.batch
    /\ flags.daemon
    /\ outcome = Raised("daemon_gui_locked") )
  => /\ hist.info0.is_gui
     /\ ~hist.info0.running

\* C24 (as claimed): a SIGINT during the daemon exchange makes the call
\* return 130, however the exchange ends.
C24_InterruptedReturns130 ==
  (op = "auto" /\ interrupted /\ c_pc = "done")
  => /\ outcome.kind = "return"
     /\ outcome.code = 130
     /\ hist.batchRuns = 0

\* C29: no step of find_server, start_daemon, stop_daemon, send_tcl or
\* run_vivado_tcl_auto creates or removes the lock file; it changes only in
\* steps of the environment.
C29_LockOnlyObserved ==
  [][ lockFile' # lockFile
      => /\ c_pc' = c_pc
         /\ op' = op
         /\ hist' = hist
         /\ sd' = sd
         /\ portFile' = portFile
         /\ ~lastFind'.quiet ]_vars

C29_Witness ==
  /\ op = "stop"
  /\ c_pc = "done"
  /\ hist.stop.pf0 \in Ports
  /\ hist.stop.pfRet = "absent"
  /\ portFile = "absent"
  /\ lockFile

\* C26 (as claimed): a SIGINT arriving at any time after the one-shot
\* process was spawned terminates the process, sets no interrupt flag, and
\* makes the run return 130 whatever the exit code of the process.
C26_OneShotCancel ==
  (hist.osSig /\ c_pc = "done")
  => /\ hist.batchRes.kind = "return"
     /\ hist.batchRes.code = 130
     /\ hist.osTerm
     /\ ~hist.osFlag

\* C25: when run_vivado_tcl_auto has called send_tcl, the interrupt flag is
\* clear when the call ends, whatever the exchange gave.
C25_FlagClearedAfterExchange ==
  (op = "auto" /\ c_pc = "done" /\ hist.sendWhy # "none") => ~intFlag

C25_Witness ==
  /\ op = "auto"
  /\ c_pc = "done"
  /\ hist.sendWhy = "exchange"
  /\ interrupted
  /\ ~intFlag
  /\ outcome.code = 130

-----------------------------------------------------------------------------
(* Claims about start_daemon and stop_daemon (checked under SpecCtl) *)

\* a stand-alone start_daemon call is past its discovery and decision
SdBegun ==
  /\ op = "start"
  /\ c_pc \in {"sd_poll", "sd_return", "done"}

\* C14: when its discovery finds a running server, start_daemon returns
\* True without spawning a process, without a readiness check, and leaves
\* the port file and the log file as they were.
C14_StartIdempotent ==
  (SdBegun /\ sd.running0)
  => /\ c_pc # "sd_poll"
     /\ sd.ret = "True"
     /\ ~sd.spawned
     /\ hist.spawns = 0
     /\ sd.pfKept
     /\ sd.logKept

C14_Witness ==
  /\ SdBegun
  /\ c_pc = "done"
  /\ sd.running0
  /\ sd.ret = "True"
  /\ sd.pfRet = "p1"
  /\ sd.pfKept
  /\ outcome = Returned(0, <<>>)

\* C15: when its discovery finds the lock and no running server,
\* start_daemon raises; no process is spawned and no readiness check is
\* made.
C15_StartLockedFailsFast ==
  (SdBegun /\ sd.gui0 /\ ~sd.running0)
  => /\ c_pc # "sd_poll"
     /\ sd.ret = "sd_gui_locked"
     /\ ~sd.spawned
     /\ hist.spawns = 0
     /\ sd.checks = 0
     /\ c_pc = "done" => outcome = Raised("sd_gui_locked")

C15_Witness ==
  /\ SdBegun
  /\ c_pc = "done"
  /\ sd.gui0
  /\ ~sd.running0
  /\ ~sd.spawned
  /\ outcome = Raised("sd_gui_locked")

ServerAnswers == portFile \in Ports /\ server[portFile] = "vproj"

\* C17: after the spawn start_daemon makes at most 60 readiness checks and
\* then returns: True at the first check that finds the port file and an
\* acknowledged ping, False after the 60th failed check, with the port
\* file removed.
C17_StartTerminates ==
  /\ [](c_pc = "sd_poll" => sd.i <= 60)
  /\ []((SdBegun /\ sd.ret = "False")
          => sd.spawned /\ sd.checks = 60 /\ sd.pfRet = "absent")
  /\ [][ (c_pc = "sd_poll" /\ sd' # sd)
          => IF sd.i = 60
             THEN c_pc' = "sd_return" /\ sd'.ret = "False"
                  /\ portFile' = "absent"
             ELSE IF ServerAnswers
             THEN c_pc' = "sd_return" /\ sd'.ret = "True"
             ELSE c_pc' = "sd_poll" /\ sd'.i = sd.i + 1 ]_vars
  /\ (c_pc = "sd_poll") ~> (c_pc = "sd_return")

C17_Witness ==
  /\ SdBegun
  /\ c_pc = "done"
  /\ sd.spawned
  /\ sd.ret = "False"
  /\ sd.checks = 60
  /\ sd.pfRet = "absent"
  /\ outcome = Returned(1, <<>>)

\* C18 (as claimed): start_daemon leaves what the log file held as a prefix
\* of the log.
C18_LogAppendOnly ==
  SdBegun => sd.logKept

\* C19: with no running server, stop_daemon returns True, sends no QUIT and
\* leaves no port file; a second call would again find nothing to stop.
C19_StopIdempotent ==
  (hist.stop.called /\ ~hist.stop.running0)
  => /\ c_pc = "done"
     /\ outcome = Returned(0, <<>>)
     /\ hist.stop.ret = "True"
     /\ hist.stop.quits = 0
     /\ hist.stop.pfRet = "absent"
     /\ hist.stop.again = "stopped"

C19_Witness ==
  /\ hist.stop.called
  /\ hist.stop.pf0 = "p1"
  /\ ~hist.stop.running0
  /\ hist.stop.ret = "True"
  /\ hist.stop.quits = 0
  /\ hist.stop.pfRet = "absent"

\* C20: with a running server, stop_daemon makes the QUIT exchange once
\* and, however that exchange ends, returns True with the port file gone.
C20_StopToleratesDrop ==
  (hist.stop.called /\ hist.stop.running0 /\ c_pc = "done")
  => /\ hist.stop.quits = 1
     /\ hist.stop.ret = "True"
     /\ outcome = Returned(0, <<>>)
     /\ hist.stop.pfRet = "absent"

C20_Witness ==
  /\ hist.stop.called
  /\ hist.stop.running0
  /\ c_pc = "done"
  /\ hist.stop.quits = 1
  /\ hist.stop.exch = "OSError"
  /\ hist.stop.ret = "True"
  /\ hist.stop.pfRet = "absent"

\* C30: start_daemon is not guarded against a concurrent caller. Whether
\* a client spawns is settled by what its own find_server call saw and by
\* the vivado check alone: a client whose discovery finds no reachable
\* server and no lock spawns a worker, also while the worker of another
\* client is still starting, so two workers compete for the workspace.
SpawnsUnguarded(pc, pcNext, frameNext) ==
  (pc = "sd_begin" /\ pcNext # pc)
  => LET r == FindServer(portFile, lockFile, server)
     IN  (~r.info.running /\ ~r.info.is_gui /\ ~frameNext.noVivado)
         => /\ frameNext.spawned
            /\ pcNext = "sd_poll"
            /\ pending' = Min(pending + 1, MaxPending)

C30_StartNotGuarded ==
  [][/\ SpawnsUnguarded(c_pc, c_pc', sd')
     /\ SpawnsUnguarded(c2_pc, c2_pc', c2_sd')]_vars

\* both clients saw no reachable server, both spawned, and both workers
\* are alive and have not bound a port yet
C30_Witness ==
  /\ c_pc = "sd_poll"
  /\ c2_pc = "sd_poll"
  /\ sd.spawned /\ ~sd.running0
  /\ c2_sd.spawned /\ ~c2_sd.running0
  /\ ~lockFile
  /\ pending = 2

\* C31: one send is one connection and one command. The socket is opened
\* once, the request (payload and END_CMD) is written once, on the open
\* socket, and when the call has returned or raised the socket is closed:
\* after the sentinel, after a remote ERROR, after a refused connection,
\* a timeout, a reset or a disconnect. A closed socket is never used again.
C31_OneConnectionPerSend ==
  /\ [](s_pc = "done" => sock = "closed")
  /\ [][/\ sock' # sock =>
            \/ sock = "none" /\ sock' = "open" /\ s_pc = "connect"
            \/ sock = "open" /\ sock' = "closed" /\ s_pc' = "done"
        /\ request' # request =>
            /\ request = <<>>
            /\ sock = "open" /\ sock' = "open"
            /\ request' = EncodeRequest(tcl)
        /\ (nrecv' # nrecv \/ wire' # wire) => sock = "open" /\ sock' = "open"
        /\ sock = "closed" => UNCHANGED <<request, wire, nrecv, s_result>>]_vars

\* the socket is closed after a receive that timed out
C31_Witness ==
  /\ s_pc = "done"
  /\ sock = "closed"
  /\ s_end = "timeout"
  /\ s_result = RaiseOSError
  /\ request = EncodeRequest(tcl)

\* the lines of a reply as the reader sees them (line 303): without the
\* terminator and without trailing carriage returns
SeenLines(bytes) ==
  LET ls == CompleteLines(bytes) IN [i \in 1..Len(ls) |-> RStripCR(ls[i])]

\* the lines that precede the first END_RESPONSE line
RECURSIVE BeforeSentinel(_)
BeforeSentinel(lines) ==
  IF Len(lines) = 0 \/ lines[1] = S_END_RESPONSE THEN <<>>
  ELSE <<lines[1]>> \o BeforeSentinel(Tail(lines))

IsStatusLine(l) == l \in {S_OK, S_ERROR}
NotStatusLine(l) == ~IsStatusLine(l)

\* the last status line among the lines, "None" if there is none
LastStatus(lines) ==
  LET st == SelectSeq(lines, IsStatusLine)
  IN  IF Len(st) = 0 THEN "None"
      ELSE IF st[Len(st)] = S_OK THEN "OK" ELSE "ERROR"

\* C32: a status line does not end the exchange. When the call ended on
\* END_RESPONSE, its output is every line before the sentinel that is not
\* a status line, those after a status line included, and it raises
\* exactly when the last status line before the sentinel was ERROR.
C32_StatusDoesNotTerminate ==
  (s_pc = "done" /\ s_end = "sentinel")
  => LET ls  == BeforeSentinel(SeenLines(wire))
         out == Join(SelectSeq(ls, NotStatusLine))
     IN  /\ Len(ls) < Len(SeenLines(wire))
         /\ s_result = IF LastStatus(ls) = "ERROR"
                       THEN RaiseRuntimeError(out) ELSE Return(out)

\* ERROR, an output line, OK, END_RESPONSE: the line after the first status
\* line is returned and the second status line is the one in force
C32_Witness ==
  /\ s_pc = "done"
  /\ s_end = "sentinel"
  /\ worker.kind = "script"
  /\ worker.script.lines = <<S_ERROR, <<"a">> >>
  /\ worker.script.st = "OK"
  /\ s_result = Return(<<"a">>)

\* a line without the carriage return of a CRLF terminator
DropCR(l) ==
  IF Len(l) > 0 /\ l[Len(l)] = CR THEN SubSeq(l, 1, Len(l) - 1) ELSE l

\* the same reply with every CRLF terminator replaced by LF
LFForm(bytes) ==
  LET ls == CompleteLines(bytes)
  IN  Terminated([i \in 1..Len(ls) |-> DropCR(ls[i])])

\* every line of the reply ends with CRLF
AllCRLF(bytes) ==
  LET ls == CompleteLines(bytes)
  IN  /\ Len(ls) > 0
      /\ \A i \in 1..Len(ls) : Len(ls[i]) > 0 /\ ls[i][Len(ls[i])] = CR

\* C33: a reply with CRLF terminators is read like the same reply with LF
\* terminators. Whatever the chunks in which the bytes arrived, at every
\* point the output lines and the status are those the reader computes
\* from the LF form of the bytes received so far, and the call ends with
\* the result or the failure it has on the LF form.
C33_CRLFEquivalence ==
  (s_pc \in {"recv", "finally", "done"} /\ s_end # "refused")
  => LET r == ProcessBuffer(LFForm(SubSeq(wire, 1, nrecv)), <<>>, "None")
     IN  /\ response_lines = r.response_lines
         /\ status = r.status
         /\ s_pc = "done"
            => s_result = SendTclToPort("accepted", LFForm(wire), s_end)

\* a reply terminated by CRLF throughout, read to its sentinel
C33_Witness ==
  /\ s_pc = "done"
  /\ s_end = "sentinel"
  /\ worker.kind = "script"
  /\ worker.script.lines = << <<"a", CR>>, <<"a", CR>> >>
  /\ worker.script.st = "ERROR"
  /\ worker.script.eol = <<CR, LF>>
  /\ AllCRLF(wire)
  /\ LFForm(wire) # wire
  /\ s_result = RaiseRuntimeError(<<"a", LF, "a">>)

\* C34 (as claimed): a call that ended on END_RESPONSE and returned has
\* received an OK status line before the sentinel.
C34_SuccessNeedsOK ==
  (s_pc = "done" /\ s_end = "sentinel" /\ s_result.kind = "return")
  => /\ status = "OK"
     /\ LastStatus(BeforeSentinel(SeenLines(wire))) = "OK"

\* C35 (as claimed): once handle_sigint of run_vivado_tcl_auto has run
\* during the daemon exchange, the call does not enter run_vivado_tcl: no
\* one-shot process is spawned for the command, whatever the exchange
\* ends with.
C35_NoRerunAfterCancel ==
  (op = "auto" /\ interrupted /\ ~hist.osFlag)
  => /\ c_pc \notin OneShotPcs
     /\ proc = NoProc
     /\ hist.batchRuns = 0

\* C36 (as claimed): when stop_daemon has returned True with the port file
\* removed, the worker the port file named is not alive any more.
C36_StopLeavesNoWorker ==
  (hist.stop.called /\ hist.stop.ret = "True" /\ hist.stop.pfRet = "absent")
  => ~hist.stop.alive

\* C37: the SIGINT handler that was in force when run_vivado_tcl_auto
\* (and through it run_vivado_tcl) was called is in force again when the
\* call has returned or raised. While the exchange runs the handler of
\* run_vivado_tcl_auto is installed over it, while the one-shot process is
\* read the handler of run_vivado_tcl is installed over whichever was in
\* force at its call, and each finally clause puts back what it replaced.
C37_HandlerRestored ==
  op = "auto"
  => /\ c_pc = "done" => /\ sigint = hist.h0
                         /\ old_handler = "none"
                         /\ os_old_handler = "none"
     /\ c_pc \in {"send_find", "exchange"}
          => sigint = "auto_handler" /\ old_handler = hist.h0
     /\ c_pc = "os_reading"
          => /\ sigint = "oneshot_handler"
             /\ os_old_handler = IF os_site = "L387" THEN "auto_handler"
                                 ELSE hist.h0
             /\ os_site = "L387" => old_handler = hist.h0
     /\ c_pc \in {"L252", "sd_begin", "sd_poll", "sd_return"}
          => sigint = hist.h0

\* the fallback of line 387 has returned: both handlers were installed, one
\* over the other, and the caller's is back
C37_Witness ==
  /\ op = "auto"
  /\ c_pc = "done"
  /\ os_site = "L387"
  /\ hist.batchRuns = 1
  /\ hist.batchRes.kind = "return"
  /\ hist.h0 = "SIG_IGN"
  /\ sigint = "SIG_IGN"

\* C38: the temporary script file of a one-shot run exists only while
\* run_vivado_tcl is inside its try block; when the function has returned
\* or raised (process ended with success or failure, Popen failed, run
\* interrupted) the file is gone.
C38_ScriptFileRemoved ==
  /\ c_pc \in {"os_try", "os_spawned", "os_reading"} => tcl_path = "present"
  /\ c_pc \notin {"os_try", "os_spawned", "os_reading"}
       => tcl_path = "absent"

\* the process could not be spawned: the call raised and the file is gone
C38_Witness ==
  /\ c_pc = "done"
  /\ hist.batchRuns = 1
  /\ hist.batchRes = Raised("OSError")
  /\ outcome = Raised("OSError")
  /\ tcl_path = "absent"

\* the poll reported the run complete: progress 100, no errors, no ERROR
\* in the status
ReportedComplete(st) ==
  /\ ~st.none
  /\ st.progress = 100
  /\ st.errors = 0
  /\ ~Contains(Upper(st.status), S_ERROR)

\* the poll reported the run failed
ReportedFailed(st) ==
  /\ ~st.none
  /\ st.errors > 0 \/ Contains(Upper(st.status), S_ERROR)

\* C39: build_cmd, with and without the progress display, launches the
\* implementation only after a poll reported synthesis complete; when
\* synthesis is reported failed it returns 3 and the implementation was not
\* launched; when the implementation is reported failed it returns 4 and
\* neither the reports nor the programming were started.
C39_BuildStagesGated ==
  /\ "impl" \in build.launched => ReportedComplete(build.synth_status)
  /\ (build.pc \in {"check_synth", "done"}
         /\ ReportedFailed(build.synth_status))
       => /\ "impl" \notin build.launched
          /\ build.pc = "done" => build.ret = 3
  /\ (build.pc \in {"check_impl", "done"}
         /\ ReportedFailed(build.impl_status))
       => /\ build.launched \cap {"reports", "program"} = {}
          /\ build.pc = "done" => build.ret = 4

\* the quiet build returned 4: synthesis complete, implementation launched
\* and reported at 100 percent with an error
C39_Witness ==
  /\ build.pc = "done"
  /\ build.quiet
  /\ build.do_program
  /\ build.ret = 4
  /\ "impl" \in build.launched
  /\ build.impl_status.progress = 100
  /\ build.impl_status.errors = 1
  /\ ReportedComplete(build.synth_status)

====
